---- MODULE Spec2Model ----
(***************************************************************************)
(* Document ingestion and semantic chunking core of the enterprise RAG     *)
(* system: SemanticChunker (src/src/ingestion/chunking.py), the sliding    *)
(* window chunker and the process_document pipeline of                     *)
(* BaseDocumentProcessor (src/src/ingestion/base.py), and the metadata     *)
(* extraction of the PDF and DOCX processors.                              *)
(*                                                                         *)
(* Text is a sequence of one-character strings.  A sentence embedding is a *)
(* pair of integers; np.mean of a list of vectors is kept exactly as the   *)
(* pair (component sums, count), and cosine similarity is compared with    *)
(* the threshold in exact integer arithmetic.                              *)
(***************************************************************************)
EXTENDS Integers, Sequences, FiniteSets, TLC

VARIABLES
    entry,                       \* which function was called
    pc,                          \* position inside the call
    text,                        \* content argument (chunk_document, _create_chunks)
    doc_id,                      \* doc_id argument
    metadata,                    \* metadata argument (the caller's mapping)
    self,                        \* SemanticChunker attributes
    proc,                        \* BaseDocumentProcessor attributes
    sentences,                   \* list of sentence strings
    embeddings,                  \* embeddings[k] is the vector of sentences[k]
    chunks,                      \* local list of chunks built so far
    current_chunk_sentences,     \* local
    current_chunk_embeddings,    \* local
    char_position,               \* local
    i,                           \* next value the loop's range() yields
    should_split,                \* local, last value computed
    overlap_sentences,           \* local, last value computed
    result,                      \* returned list (meaningful when pc = "done")
    kind,                        \* processor class: "pdf" or "docx"
    file_path,                   \* file_path argument
    user_context,                \* user_context argument (empty mapping: None)
    now,                         \* last value the clock returned
    timestamp,                   \* instant read by _generate_document_id
    checksum,                    \* local of process_document
    error,                       \* message of the exception extract_content raised
    processed_doc,               \* the ProcessedDocument returned by this call
    previous,                    \* earlier completed calls of process_document
    heap,                        \* heap[a]: the mapping object the call created at address a
    refs,                        \* refs[k]: address of the mapping chunks[k].metadata denotes
    document,                    \* what the PDF or DOCX library reads from the file
    options                      \* decoder attributes (use_ocr, extract_tables, ...)

pipeline_vars == <<kind, file_path, user_context, now, timestamp, checksum,
                   error, processed_doc, previous>>

heap_vars == <<heap, refs>>

decoder_vars == <<document, options>>

vars == <<entry, pc, text, doc_id, metadata, self, proc, sentences, embeddings,
          chunks, current_chunk_sentences, current_chunk_embeddings,
          char_position, i, should_split, overlap_sentences, result,
          pipeline_vars, heap_vars, decoder_vars>>

-----------------------------------------------------------------------------
(* Bounds of the explored inputs *)

MaxSentences == 4
MaxPieces == 3
MaxContentLen == 4
MaxTime == 2
MaxPages == 2
MaxBody == 2
MaxRows == 2
MaxCells == 2

-----------------------------------------------------------------------------
(* Characters *)

Upper == {"A", "B"}
Lower == {"a", "b", "p", "q", "r", "s", "t", "u", "v", "w"}
DigitChars == {"1", "5"}
WordChars == Upper \cup Lower \cup DigitChars
Punct == {".", "?", "!"}
Whitespace == {" ", "\n"}

Rep(c, n) == [k \in 1..n |-> c]

Max(S) == CHOOSE x \in S : \A y \in S : y <= x

-----------------------------------------------------------------------------
(* " ".join(list) *)

RECURSIVE Join(_)
Join(ss) ==
    IF ss = <<>> THEN <<>>
    ELSE IF Len(ss) = 1 THEN ss[1]
    ELSE ss[1] \o <<" ">> \o Join(Tail(ss))

(* str.strip() *)
RECURSIVE LStrip(_)
LStrip(s) ==
    IF s # <<>> /\ s[1] \in Whitespace THEN LStrip(Tail(s)) ELSE s

RECURSIVE RStrip(_)
RStrip(s) ==
    IF s # <<>> /\ s[Len(s)] \in Whitespace
    THEN RStrip(SubSeq(s, 1, Len(s) - 1)) ELSE s

Strip(s) == RStrip(LStrip(s))

(* Python slice s[a:b] for 0 <= a, with b clamped to len(s) *)
Slice(s, a, b) ==
    LET hi == IF b > Len(s) THEN Len(s) ELSE b
    IN  IF a >= hi THEN <<>> ELSE SubSeq(s, a + 1, hi)

-----------------------------------------------------------------------------
(* _split_into_sentences: the regular expression                           *)
(*   (?<!\w\.\w.)(?<![A-Z][a-z]\.)(?<=\.|\?|\!)\s+(?=[A-Z])                *)
(* A match can only start at the first character of a whitespace run (the  *)
(* character before it must be punctuation) and, because the lookahead     *)
(* needs an uppercase letter, extends over the whole run.                  *)

RunEnd(t, p) ==
    Max({q \in p..Len(t) : \A k \in p..q : t[k] \in Whitespace})

AbbrevBefore(t, p) ==
    /\ p >= 5
    /\ t[p - 4] \in WordChars
    /\ t[p - 3] = "."
    /\ t[p - 2] \in WordChars
    /\ t[p - 1] # "\n"

HonorificBefore(t, p) ==
    /\ p >= 4
    /\ t[p - 3] \in Upper
    /\ t[p - 2] \in Lower
    /\ t[p - 1] = "."

(* variant: the expression without its second lookbehind *)
sentence_endings_without_honorific(t, p) ==
    /\ p >= 2
    /\ p <= Len(t)
    /\ t[p] \in Whitespace
    /\ ~AbbrevBefore(t, p)
    /\ t[p - 1] \in Punct
    /\ RunEnd(t, p) < Len(t)
    /\ t[RunEnd(t, p) + 1] \in Upper

sentence_endings(t, p) ==
    /\ p >= 2
    /\ p <= Len(t)
    /\ t[p] \in Whitespace
    /\ ~AbbrevBefore(t, p)
    /\ ~HonorificBefore(t, p)
    /\ t[p - 1] \in Punct
    /\ RunEnd(t, p) < Len(t)
    /\ t[RunEnd(t, p) + 1] \in Upper

(* sentence_endings.split(text): the pieces between the matches *)
RECURSIVE RegexSplit(_, _, _)
RegexSplit(t, start, p) ==
    IF p > Len(t) THEN <<SubSeq(t, start, Len(t))>>
    ELSE IF sentence_endings(t, p)
         THEN <<SubSeq(t, start, p - 1)>>
              \o RegexSplit(t, RunEnd(t, p) + 1, RunEnd(t, p) + 1)
         ELSE RegexSplit(t, start, p + 1)

MinSentenceLen == 10

RECURSIVE CleanSentences(_)
CleanSentences(pieces) ==
    IF pieces = <<>> THEN <<>>
    ELSE LET sent == Strip(pieces[1])
         IN  (IF Len(sent) > MinSentenceLen THEN <<sent>> ELSE <<>>)
             \o CleanSentences(Tail(pieces))

split_into_sentences(t) == CleanSentences(RegexSplit(t, 1, 1))

-----------------------------------------------------------------------------
(* Embeddings: np.mean(vectors, axis=0) and cosine_similarity *)

VecAdd(u, v) == <<u[1] + v[1], u[2] + v[2]>>

RECURSIVE VecSum(_)
VecSum(vs) == IF vs = <<>> THEN <<0, 0>> ELSE VecAdd(vs[1], VecSum(Tail(vs)))

(* the mean of a non-empty list of vectors is sum / n, component-wise *)
np_mean(vs) == [sum |-> VecSum(vs), n |-> Len(vs)]

(* equality of two means as vectors of rationals *)
MeanEq(a, b) ==
    /\ a.sum[1] * b.n = b.sum[1] * a.n
    /\ a.sum[2] * b.n = b.sum[2] * a.n

(* embedding=None *)
NoEmbedding == [sum |-> <<0, 0>>, n |-> 0]

Dot(u, v) == u[1] * v[1] + u[2] * v[2]

(* cosine_similarity([m], [v])[0][0] < thr, thr = num/den with den > 0.     *)
(* The cosine of the mean equals the cosine of the sum; a zero-norm vector *)
(* is left unscaled by the normalisation, so the similarity is 0.          *)
similarity_below(m, v, thr) ==
    LET u == m.sum
        d == Dot(u, v) * thr.den
        N == Dot(u, u) * Dot(v, v)
        t == thr.num
    IN  IF N = 0 THEN 0 < t
        ELSE IF d < 0 THEN (t >= 0 \/ d * d > t * t * N)
        ELSE (t > 0 /\ d * d < t * t * N)

-----------------------------------------------------------------------------
(* _get_overlap_sentences(sentences, target_overlap)                       *)

(* the loop over reversed(sentences): k sentences taken so far, of summed  *)
(* length overlap_length; returns how many sentences end up in the result  *)
(* variant: the loop leaves after its first sentence *)
get_overlap_last_sentence(ss, target_overlap) ==
    IF ss = <<>> THEN <<>> ELSE <<ss[Len(ss)]>>

(* variant: the running length counts the joining spaces as well *)
RECURSIVE OverlapLoopJoined(_, _, _, _)
OverlapLoopJoined(ss, target_overlap, k, overlap_length) ==
    IF k = Len(ss) THEN k
    ELSE LET sent == ss[Len(ss) - k]
             len2 == overlap_length + Len(sent) + (IF k > 0 THEN 1 ELSE 0)
         IN  IF len2 >= target_overlap THEN k + 1
             ELSE OverlapLoopJoined(ss, target_overlap, k + 1, len2)

get_overlap_joined(ss, target_overlap) ==
    LET cnt == OverlapLoopJoined(ss, target_overlap, 0, 0)
    IN  SubSeq(ss, Len(ss) - cnt + 1, Len(ss))

(* variant: the length is tested before a sentence is taken *)
RECURSIVE OverlapLoopTestFirst(_, _, _, _)
OverlapLoopTestFirst(ss, target_overlap, k, overlap_length) ==
    IF k = Len(ss) \/ overlap_length >= target_overlap THEN k
    ELSE OverlapLoopTestFirst(ss, target_overlap, k + 1,
                              overlap_length + Len(ss[Len(ss) - k]))

get_overlap_test_first(ss, target_overlap) ==
    LET cnt == OverlapLoopTestFirst(ss, target_overlap, 0, 0)
    IN  SubSeq(ss, Len(ss) - cnt + 1, Len(ss))

RECURSIVE OverlapLoop(_, _, _, _)
OverlapLoop(ss, target_overlap, k, overlap_length) ==
    IF k = Len(ss) THEN k
    ELSE LET sent == ss[Len(ss) - k]
             len2 == overlap_length + Len(sent)
         IN  IF len2 >= target_overlap THEN k + 1
             ELSE OverlapLoop(ss, target_overlap, k + 1, len2)

get_overlap_sentences(ss, target_overlap) ==
    LET cnt == OverlapLoop(ss, target_overlap, 0, 0)
    IN  SubSeq(ss, Len(ss) - cnt + 1, Len(ss))

(* variant: the first overlap_count vectors are kept instead of the last *)
overlap_embeddings_head(embs, overlap_count, e) ==
    IF overlap_count > 0
    THEN SubSeq(embs, 1, overlap_count) \o <<e>>
    ELSE <<e>>

(* current_chunk_embeddings[-overlap_count:] followed by embeddings[i] *)
overlap_embeddings(embs, overlap_count, e) ==
    IF overlap_count > 0
    THEN SubSeq(embs, Len(embs) - overlap_count + 1, Len(embs)) \o <<e>>
    ELSE <<e>>

-----------------------------------------------------------------------------
(* {**a, **b} *)
Merge(a, b) ==
    [k \in (DOMAIN a) \cup (DOMAIN b) |-> IF k \in DOMAIN b THEN b[k] ELSE a[k]]

(* variant: the chunk id does not carry the index *)
ChunkId_unindexed(d, chunk_index) == <<d, "_chunk_", 0>>

(* f"{doc_id}_chunk_{chunk_index}" *)
ChunkId(d, chunk_index) == <<d, "_chunk_", chunk_index>>

(* SemanticChunker._create_chunk *)
create_chunk(d, content, start_char, end_char, chunk_index, md, embedding) ==
    [id          |-> ChunkId(d, chunk_index),
     document_id |-> d,
     content     |-> content,
     embedding   |-> embedding,
     metadata    |-> Merge(md, [chunk_index  |-> chunk_index,
                                chunk_method |-> "semantic",
                                chunk_size   |-> Len(content)]),
     start_char  |-> start_char,
     end_char    |-> end_char,
     chunk_index |-> chunk_index]

(* variant: the last chunk is not stamped *)
stamp_all_but_last(cs) ==
    [k \in 1..Len(cs) |->
        IF k < Len(cs)
        THEN [cs[k] EXCEPT !.metadata = [a \in (DOMAIN @) \cup {"total_chunks"} |->
                                            IF a = "total_chunks" THEN Len(cs) ELSE @[a]]]
        ELSE cs[k]]

(* for chunk in chunks: chunk.metadata["total_chunks"] = len(chunks) *)
stamp_total_chunks(cs) ==
    [k \in 1..Len(cs) |->
        [cs[k] EXCEPT !.metadata = Merge(@, [total_chunks |-> Len(cs)])]]

-----------------------------------------------------------------------------
(* Mapping objects.  The caller's metadata mapping is the object at        *)
(* address CallerRef and the variable metadata is its content; the         *)
(* mappings the call creates are heap[1], heap[2], ...                     *)

CallerRef == 0

Memory(h, md) == [heap |-> h, caller |-> md]

(* the content of the mapping at address a *)
read_mapping(mem, a) == IF a = CallerRef THEN mem.caller ELSE mem.heap[a]

(* the mapping at address a is given the content m *)
write_mapping(mem, a, m) ==
    IF a = CallerRef THEN [mem EXCEPT !.caller = m]
                     ELSE [mem EXCEPT !.heap[a] = m]

(* variant: the caller's mapping is updated in place and handed on *)
dict_updated_in_place(mem, m) ==
    [mem |-> write_mapping(mem, CallerRef, m), ref |-> CallerRef]

(* {**metadata, ...}: a dict display creates a new mapping object *)
dict_literal(mem, m) ==
    [mem |-> [mem EXCEPT !.heap = Append(@, m)], ref |-> Len(mem.heap) + 1]

(* chunk.metadata denotes the mapping at the chunk's address *)
deref(cs, mem, rs) ==
    [k \in 1..Len(cs) |-> [cs[k] EXCEPT !.metadata = read_mapping(mem, rs[k])]]

(* the chunk appended last gets the mapping object built for it *)
add_chunk(cs, mem, rs) ==
    LET a   == dict_literal(mem, cs[Len(cs)].metadata)
        rs2 == Append(rs, a.ref)
    IN  [chunks |-> deref(cs, a.mem, rs2), mem |-> a.mem, refs |-> rs2]

(* chunk.metadata[...] = ... for the chunks k, k + 1, ... in turn: the     *)
(* assignment goes to the mapping object at the chunk's address            *)
RECURSIVE store_metadata(_, _, _, _)
store_metadata(mem, rs, cs, k) ==
    IF k > Len(cs) THEN mem
    ELSE store_metadata(write_mapping(mem, rs[k], cs[k].metadata), rs, cs, k + 1)

(* variant: the size test ignores min_chunk_size *)
split_test_no_min_guard(similarity_low, current_length, sentence_len, cfg) ==
    \/ similarity_low
    \/ current_length > cfg.max_chunk_size
    \/ current_length + sentence_len > cfg.max_chunk_size

(* variant: a buffer longer than min_chunk_size is always emitted *)
split_test_min_reached(similarity_low, current_length, sentence_len, cfg) ==
    \/ similarity_low
    \/ current_length > cfg.max_chunk_size
    \/ current_length > cfg.min_chunk_size

(* the split test of _create_semantic_chunks, lines 104-109 *)
split_test(similarity_low, current_length, sentence_len, cfg) ==
    \/ similarity_low
    \/ current_length > cfg.max_chunk_size
    \/ (current_length > cfg.min_chunk_size
        /\ current_length + sentence_len > cfg.max_chunk_size)

(* lines 113-122 and 149-158: the buffer becomes the chunk of index       *)
(* len(chunks), spanning [char_position, char_position + len(content))     *)
emit_chunk(cs, d, content, pos, md, embedding) ==
    Append(cs, create_chunk(d, content, pos, pos + Len(content), Len(cs),
                            md, embedding))

(* variant: the triggering sentence is put before the overlap *)
reseed_sentences_trigger_first(ov, sent) == <<sent>> \o ov

(* current_chunk_sentences = overlap_sentences + [sentences[i]] *)
reseed_sentences(ov, sent) == ov \o <<sent>>

(* variant: the cursor moves past the whole emitted chunk *)
advance_position_past_chunk(pos, current_length, ov) == pos + current_length

(* variant: the cursor is assigned instead of advanced *)
advance_position_assigned(pos, current_length, ov) == current_length - Len(Join(ov))

(* char_position += current_length - len(" ".join(overlap_sentences)) *)
advance_position(pos, current_length, ov) == pos + current_length - Len(Join(ov))

-----------------------------------------------------------------------------
(* BaseDocumentProcessor: document identity and checksum *)

(* hashlib.sha256(data.encode()).hexdigest(): SHA-256 is taken as          *)
(* collision-free, so a digest is kept as the string that was hashed       *)
(* together with the number of hexadecimal characters of the digest string *)
Sha256HexLen == 64
sha256_hexdigest(data) == [sha256 |-> data, hex |-> Sha256HexLen]

(* digest[:n] *)
hex_prefix(digest, n) ==
    [sha256 |-> digest.sha256, hex |-> IF n < digest.hex THEN n ELSE digest.hex]

Digits == <<"0", "1", "2", "3", "4", "5", "6", "7", "8", "9">>

(* datetime.isoformat() of the instant t: a fixed-width string *)
isoformat(t) == <<"T", Digits[t + 1]>>

DocumentIdLen == 16

(* variant: the id is derived from the path alone *)
generate_document_id_path_only(path, t) ==
    hex_prefix(sha256_hexdigest(path), DocumentIdLen)

(* variant: the id is the whole digest *)
generate_document_id_full(path, t) ==
    sha256_hexdigest(path \o <<":">> \o isoformat(t))

(* base.py lines 93-95, with t the value utcnow() returned *)
generate_document_id(path, t) ==
    hex_prefix(sha256_hexdigest(path \o <<":">> \o isoformat(t)), DocumentIdLen)

(* variant: the checksum is cut like the document id *)
calculate_checksum_truncated(content) ==
    hex_prefix(sha256_hexdigest(content), DocumentIdLen)

(* base.py lines 97-99 *)
calculate_checksum(content) == sha256_hexdigest(content)

-----------------------------------------------------------------------------
(* PDFProcessor.extract_metadata and DOCXProcessor.extract_metadata *)

(* os.path.basename *)
basename(path) ==
    LET slashes == {k \in 1..Len(path) : path[k] = "/"}
    IN  IF slashes = {} THEN path
        ELSE SubSeq(path, Max(slashes) + 1, Len(path))

(* The try block assigns its keys in order; f.metadata_fault names the     *)
(* statement group that raises (0: none).  pdf_processor.py lines 69-93:   *)
(*   1: open / PdfReader / reading pdf_reader.metadata (no key set yet)    *)
(*   2: len(pdf_reader.pages)      3: os.path.getsize                      *)
pdf_extract_metadata(path, f) ==
    LET info   == [title |-> f.title, author |-> f.author, subject |-> "",
                   creator |-> "", creation_date |-> "", modification_date |-> ""]
        pages  == [page_count |-> f.page_count]
        size   == [file_size |-> f.file_size]
        named  == [file_name |-> basename(path), file_type |-> "pdf"]
        err    == [extraction_error |-> f.message]
        WithInfo(m) == IF f.has_info THEN Merge(info, m) ELSE m
    IN  CASE f.metadata_fault = 1 -> err
          [] f.metadata_fault = 2 -> WithInfo(err)
          [] f.metadata_fault = 3 -> WithInfo(Merge(pages, err))
          [] OTHER -> WithInfo(Merge(pages, Merge(size, named)))

(* docx_processor.py lines 83-117:                                         *)
(*   1: Document(file_path) / doc.core_properties (no key set yet)         *)
(*   2: the document statistics    3: os.path.getsize                      *)
docx_extract_metadata(path, f) ==
    LET core   == [title |-> f.title, author |-> f.author, subject |-> "",
                   keywords |-> "", category |-> "", comments |-> "",
                   created |-> "", modified |-> "", last_modified_by |-> "",
                   revision |-> 0]
        stats  == [page_count |-> f.page_count, word_count |-> f.word_count,
                   paragraph_count |-> f.paragraph_count,
                   table_count |-> f.table_count]
        size   == [file_size |-> f.file_size]
        named  == [file_name |-> basename(path), file_type |-> "docx"]
        err    == [extraction_error |-> f.message]
    IN  CASE f.metadata_fault = 1 -> err
          [] f.metadata_fault = 2 -> Merge(core, err)
          [] f.metadata_fault = 3 -> Merge(core, Merge(stats, err))
          [] OTHER -> Merge(core, Merge(stats, Merge(size, named)))

(* variant: a fault discards the keys assigned before it *)
extract_metadata_dropping_keys(k, path, f) ==
    IF f.metadata_fault = 0
    THEN (IF k = "pdf" THEN pdf_extract_metadata(path, f)
                       ELSE docx_extract_metadata(path, f))
    ELSE [extraction_error |-> f.message]

(* extract_metadata of a processor of class k *)
extract_metadata(k, path, f) ==
    IF k = "pdf" THEN pdf_extract_metadata(path, f)
                 ELSE docx_extract_metadata(path, f)

(* base.py lines 67-68 *)
add_user_context(md, uc) ==
    IF DOMAIN uc # {} THEN Merge(md, [user_context |-> uc]) ELSE md

-----------------------------------------------------------------------------
(* Decoders: DOCXProcessor.extract_content and PDFProcessor.extract_content *)

(* sep.join(list) *)
RECURSIVE JoinBy(_, _)
JoinBy(sep, ss) ==
    IF ss = <<>> THEN <<>>
    ELSE IF Len(ss) = 1 THEN ss[1]
    ELSE ss[1] \o sep \o JoinBy(sep, Tail(ss))

Concat(ss) == JoinBy(<<>>, ss)

(* variant: the pass leaves the text as it is *)
collapse_newlines_skipped(s) == s

(* re.sub(r'\n{3,}', '\n\n', s): the leftmost run of three or more         *)
(* newlines is cut down to two, then the text after it is scanned          *)
RECURSIVE collapse_newlines(_)
collapse_newlines(s) ==
    LET third == {k \in 3..Len(s) :
                     s[k] = "\n" /\ s[k - 1] = "\n" /\ s[k - 2] = "\n"}
    IN  IF third = {} THEN s
        ELSE LET k    == CHOOSE a \in third : \A b \in third : a <= b
                 rest == {e \in k..Len(s) : s[e] # "\n"}
             IN  IF rest = {} THEN SubSeq(s, 1, k - 1)
                 ELSE SubSeq(s, 1, k - 1)
                      \o collapse_newlines(
                             SubSeq(s, CHOOSE a \in rest : \A b \in rest : a <= b,
                                    Len(s)))

(* cell.text.replace('\n', ' ') *)
replace_newlines(s) == [k \in 1..Len(s) |-> IF s[k] = "\n" THEN " " ELSE s[k]]

(* " | ".join(cells) of one table row *)
row_line(row) ==
    JoinBy(<<" ", "|", " ">>,
           [c \in 1..Len(row) |-> Strip(replace_newlines(row[c]))])

(* variant: the closing border is left out *)
format_table_open(table) ==
    IF table = <<>> THEN <<>>
    ELSE LET rows      == [r \in 1..Len(table) |-> row_line(table[r])]
             separator == Rep("-", Len(rows[1]))
         IN  JoinBy(<<"\n">>, <<separator, rows[1], separator>> \o Tail(rows))

(* DOCXProcessor._format_table *)
format_table(table) ==
    IF table = <<>> THEN <<>>
    ELSE LET rows      == [r \in 1..Len(table) |-> row_line(table[r])]
             separator == Rep("-", Len(rows[1]))
         IN  JoinBy(<<"\n">>, <<separator, rows[1], separator>> \o Tail(rows)
                                  \o <<separator>>)

(* paragraph.text: the runs' text *)
paragraph_text(para) == Concat([r \in 1..Len(para.runs) |-> para.runs[r].text])

Wrapped(mark, on, s) == IF on THEN mark \o s \o mark ELSE s

(* DOCXProcessor._extract_formatted_text *)
extract_formatted_text(para) ==
    Concat([r \in 1..Len(para.runs) |->
               Wrapped(<<"_">>, para.runs[r].underline,
                   Wrapped(<<"*">>, para.runs[r].italic,
                       Wrapped(<<"*", "*">>, para.runs[r].bold,
                               para.runs[r].text)))])

(* DOCXProcessor._extract_paragraph *)
extract_paragraph(para, opts) ==
    IF opts.preserve_formatting THEN extract_formatted_text(para)
                                ELSE paragraph_text(para)

(* the stripped, non-empty paragraph texts of one header or footer *)
RECURSIVE stripped_texts(_)
stripped_texts(ps) ==
    IF ps = <<>> THEN <<>>
    ELSE (IF Strip(ps[1]) # <<>> THEN <<Strip(ps[1])>> ELSE <<>>)
         \o stripped_texts(Tail(ps))

(* DOCXProcessor._extract_headers and _extract_footers: one text per       *)
(* section, empty and repeated texts left out                              *)
RECURSIVE extract_section_texts(_, _)
extract_section_texts(sections, found) ==
    IF sections = <<>> THEN found
    ELSE LET t == JoinBy(<<"\n">>, stripped_texts(sections[1]))
         IN  extract_section_texts(
                 Tail(sections),
                 IF t # <<>> /\ \A k \in 1..Len(found) : found[k] # t
                 THEN Append(found, t) ELSE found)

HeadersBanner == <<"=", "=", "=", " ", "H", "E", "A", "D", "E", "R", "S", " ", "=", "=", "=">>
FootersBanner == <<"=", "=", "=", " ", "F", "O", "O", "T", "E", "R", "S", " ", "=", "=", "=">>

(* lines 43-55 of docx_processor.py: the parts the body elements add *)
RECURSIVE body_parts(_, _)
body_parts(body, opts) ==
    IF body = <<>> THEN <<>>
    ELSE LET element == body[1]
             para    == extract_paragraph(element, opts)
             table   == format_table(element.rows)
         IN  (IF element.tag = "p"
              THEN (IF Strip(para) # <<>> THEN <<para>> ELSE <<>>)
              ELSE IF element.tag = "tbl" /\ opts.extract_tables
                   THEN (IF table # <<>> THEN <<<<"\n">> \o table \o <<"\n">>>>
                                         ELSE <<>>)
                   ELSE <<>>)
             \o body_parts(Tail(body), opts)

(* lines 36-41, 43-55, 57-63: content_parts; _extract_comments returns no  *)
(* comment                                                                 *)
docx_content_parts(doc, opts) ==
    LET headers == IF opts.extract_headers_footers
                   THEN extract_section_texts(doc.headers, <<>>) ELSE <<>>
        footers == IF opts.extract_headers_footers
                   THEN extract_section_texts(doc.footers, <<>>) ELSE <<>>
    IN  (IF headers # <<>> THEN <<HeadersBanner>> \o headers \o <<<<>>>>
                           ELSE <<>>)
        \o body_parts(doc.body, opts)
        \o (IF footers # <<>> THEN <<<<>>, FootersBanner>> \o footers
                              ELSE <<>>)

(* DOCXProcessor.extract_content, lines 69-75: join, clean up, strip *)
docx_extract_content(doc, opts) ==
    Strip(collapse_newlines(JoinBy(<<"\n">>, docx_content_parts(doc, opts))))

MinPageText == 50
MinDocumentText == 100

OcrPrefix == <<"[", "O", "C", "R", " ", "c", "o", "n", "t", "e", "n", "t", " ", "f", "o", "r", " ", "p", "a", "g", "e", " ">>
NougatPlaceholder == <<"[", "N", "o", "u", "g", "a", "t", " ", "e", "x", "t", "r", "a", "c", "t", "i", "o", "n", " ", "p", "l", "a", "c", "e", "h", "o", "l", "d", "e", "r", "]">>
Gpt4vPlaceholder == <<"[", "G", "P", "T", "-", "4", "V", " ", "e", "x", "t", "r", "a", "c", "t", "i", "o", "n", " ", "p", "l", "a", "c", "e", "h", "o", "l", "d", "e", "r", "]">>

(* PDFProcessor._extract_with_ocr for the page of index page_num *)
extract_with_ocr(page_num) == OcrPrefix \o <<Digits[page_num + 2]>> \o <<"]">>

(* lines 37-47 of pdf_processor.py: the part of the page of index page_num *)
pdf_page_part(page_text, page_num, opts) ==
    IF Len(Strip(page_text)) < MinPageText /\ opts.use_ocr
    THEN extract_with_ocr(page_num)
    ELSE page_text

(* PDFProcessor.extract_content, lines 37-61 *)
pdf_extract_content(doc, opts) ==
    LET full_content ==
            JoinBy(<<"\n", "\n">>,
                   [k \in 1..Len(doc.pages) |->
                       pdf_page_part(doc.pages[k], k - 1, opts)])
    IN  IF Len(Strip(full_content)) < MinDocumentText
        THEN (IF opts.use_nougat THEN NougatPlaceholder
              ELSE IF opts.use_gpt4v THEN Gpt4vPlaceholder
              ELSE full_content)
        ELSE full_content

(* extract_content of a processor of class k *)
extract_content(k, doc, opts) ==
    IF k = "pdf" THEN pdf_extract_content(doc, opts)
                 ELSE docx_extract_content(doc, opts)

-----------------------------------------------------------------------------
(* Inputs *)

ThresholdNum == 7
ThresholdDen == 10
Threshold == [num |-> ThresholdNum, den |-> ThresholdDen]

EmbeddingSet == {<<1, 0>>, <<0, 1>>}

(* caller's metadata; one of them already holds entries under the keys    *)
(* the chunkers set                                                        *)
StaleMetadata == [source |-> "unit_test", total_chunks |-> 99, chunk_size |-> 99]
MetadataInputs == {[source |-> "unit_test"], StaleMetadata}

DocIds == {"doc"}

Letters == <<"p", "q", "r", "s", "t", "u", "v", "w">>

(* sentence lists handed directly to _create_semantic_chunks: sentence k   *)
(* is its own letter repeated, so that sentences are pairwise distinct     *)
SentenceLens == {1, 2, 4}

SentenceLists ==
    UNION {{[k \in 1..n |-> Rep(Letters[k], ls[k])] : ls \in [1..n -> SentenceLens]}
           : n \in 0..MaxSentences}

BuilderConfigs ==
    [max_chunk_size : {3, 6}, min_chunk_size : {1, 3}, chunk_overlap : {0, 2, 5},
     similarity_threshold : {Threshold}]

(* texts handed to chunk_document: candidate sentences separated by        *)
(* whitespace runs, with or without leading whitespace                     *)
LongPiece == <<"A">> \o Rep("a", 9) \o <<".">>
ShortPiece == <<"B", "b", "b", ".">>
TailPiece == <<"b", "b", "b", ".">>
Pieces == {LongPiece, ShortPiece, TailPiece}
Gaps == {<<" ">>, <<" ", " ">>, <<"\n">>}
Leads == {<<>>, <<" ">>}

RECURSIVE Assemble(_, _)
Assemble(ps, gs) ==
    IF Len(ps) = 1 THEN ps[1]
    ELSE ps[1] \o gs[1] \o Assemble(Tail(ps), Tail(gs))

Texts ==
    {<<>>} \cup
    UNION {{lead \o Assemble(ps, gs) :
                lead \in Leads, ps \in [1..n -> Pieces], gs \in [1..(n - 1) -> Gaps]}
           : n \in 1..MaxPieces}

(* texts handed directly to _split_into_sentences: candidate sentences of  *)
(* 10 characters before their ending, starting in upper or in lower case;  *)
(* the endings are plain punctuation, an abbreviation, an honorific and no *)
(* punctuation at all                                                      *)
Stems == {<<"A">> \o Rep("a", 9), Rep("a", 10)}
Endings == {<<".">>, <<"?">>, <<"a", ".", "5", "?">>, <<"A", "b", ".">>, <<>>}
SegmenterPieces == {st \o e : st \in Stems, e \in Endings}
SegmenterGaps == {<<" ">>, <<" ", "\n">>}

SegmenterTexts ==
    UNION {{lead \o Assemble(ps, gs) :
                lead \in Leads, ps \in [1..n -> SegmenterPieces],
                gs \in [1..(n - 1) -> SegmenterGaps]}
           : n \in 1..MaxPieces}

DocumentConfigs ==
    [max_chunk_size : {24, 30}, min_chunk_size : {12}, chunk_overlap : {11},
     similarity_threshold : {Threshold}]

(* contents handed to BaseDocumentProcessor._create_chunks *)
Contents == {[k \in 1..n |-> Letters[((k - 1) % Len(Letters)) + 1]] : n \in 0..MaxContentLen}

ProcessorConfigs == [chunk_size : 1..3, chunk_overlap : 0..3]

NoConfig == [max_chunk_size |-> 0, min_chunk_size |-> 0, chunk_overlap |-> 0,
             similarity_threshold |-> Threshold]
NoProcessor == [chunk_size |-> 0, chunk_overlap |-> 0]

(* process_document: the files the decoders are run on.  A file is given   *)
(* by what the decoding libraries do with it: raises is the message of the *)
(* exception extract_content ends with ("" when it returns content),       *)
(* metadata_fault the statement group of extract_metadata that raises.     *)
PathA == <<"d", "/", "a">>
PathB == <<"d", "/", "b">>
PathC == <<"c">>
PathE == <<"e">>
PathMissing == <<"d", "/", "m">>
Paths == {PathA, PathB, PathC, PathE, PathMissing}

GoodFile ==
    [raises |-> "", content |-> <<"p", "q", "r">>, has_info |-> TRUE,
     title |-> "Test Document", author |-> "Test Author", page_count |-> 1,
     word_count |-> 1, paragraph_count |-> 1, table_count |-> 0,
     file_size |-> 3, metadata_fault |-> 0, message |-> ""]

(* one run of a paragraph, without character formatting *)
Run(t) == [text |-> t, bold |-> FALSE, italic |-> FALSE, underline |-> FALSE]

(* the elements of a document body: paragraphs (w:p) and tables (w:tbl) *)
Paragraph(runs) == [tag |-> "p", runs |-> runs, rows |-> <<>>]
TableElement(rows) == [tag |-> "tbl", runs |-> <<>>, rows |-> rows]

(* what the libraries read from a file that holds the text f.content: one  *)
(* page (PdfReader.pages), one paragraph (Document.element.body), nothing  *)
(* when there is no text                                                   *)
Parsed(f) ==
    Merge(f, [pages   |-> IF f.content = <<>> THEN <<>> ELSE <<f.content>>,
              headers |-> <<>>,
              body    |-> IF f.content = <<>> THEN <<>>
                          ELSE <<Paragraph(<<Run(f.content)>>)>>,
              footers |-> <<>>])

FileSystem ==
    [path \in Paths |-> Parsed(
        CASE path = PathA -> GoodFile
          [] path = PathB -> [GoodFile EXCEPT !.has_info = FALSE, !.title = "",
                                              !.author = "", !.file_size = 4]
          [] path = PathC -> [GoodFile EXCEPT !.content = <<"s", "t">>,
                                              !.has_info = FALSE,
                                              !.metadata_fault = 3,
                                              !.message = "stat failed"]
          [] path = PathE -> [GoodFile EXCEPT !.content = <<>>,
                                              !.metadata_fault = 2,
                                              !.message = "page tree is broken"]
          [] OTHER -> [GoodFile EXCEPT !.raises = "No such file or directory",
                                       !.content = <<>>,
                                       !.metadata_fault = 1,
                                       !.message = "No such file or directory"])]

Kinds == {"pdf", "docx"}

(* user_context: None (the empty mapping) or the mapping of the tests *)
UserContexts == {<<>>, [user_id |-> "test_user"]}

PipelineConfigs == {c \in ProcessorConfigs : c.chunk_size = 2}

(* decoder attributes of the processors that run the pipeline: OCR and the *)
(* placeholder fallbacks switched off, the DOCX defaults                   *)
PipelineOptions ==
    [use_ocr |-> FALSE, use_nougat |-> FALSE, use_gpt4v |-> FALSE,
     extract_tables |-> TRUE, extract_headers_footers |-> TRUE,
     preserve_formatting |-> FALSE]

NoFile == <<>>
NoOptions == <<>>

(* page texts: none, short, short with surrounding whitespace, just below  *)
(* and at the length that counts as enough text                            *)
PageTexts ==
    {<<>>, <<"p", "q">>, <<" ", "p", "q", "\n">>,
     Rep("a", MinPageText), <<" ">> \o Rep("a", MinPageText - 1)}

DecoderFile(pages, headers, body, footers) ==
    [raises |-> "", pages |-> pages, headers |-> headers, body |-> body,
     footers |-> footers]

UnreadableFile ==
    [DecoderFile(<<>>, <<>>, <<>>, <<>>) EXCEPT !.raises = "No such file or directory"]

PdfDocuments ==
    {UnreadableFile} \cup
    UNION {{DecoderFile(pages, <<>>, <<>>, <<>>) : pages \in [1..n -> PageTexts]}
           : n \in 0..MaxPages}

PdfOptions ==
    [use_ocr : BOOLEAN, use_nougat : BOOLEAN, use_gpt4v : BOOLEAN,
     extract_tables : {TRUE}, extract_headers_footers : {TRUE},
     preserve_formatting : {FALSE}]

(* cell texts, rows of cells and tables of rows *)
CellTexts == {<<"s">>, <<"t", "\n", "u">>, <<" ">>}
TableRows == UNION {[1..n -> CellTexts] : n \in 1..MaxCells}
Tables == UNION {[1..n -> TableRows] : n \in 0..MaxRows}

(* body elements: paragraphs with text, blank, ending in line breaks,      *)
(* formatted, without runs; tables without rows and with rows              *)
BodyElements ==
    {Paragraph(<<Run(<<"p", "q">>)>>),
     Paragraph(<<Run(<<" ">>)>>),
     Paragraph(<<Run(<<"q", "\n", "\n">>)>>),
     Paragraph(<<[Run(<<"r">>) EXCEPT !.bold = TRUE, !.underline = TRUE],
                 [Run(<<"s">>) EXCEPT !.italic = TRUE]>>),
     Paragraph(<<>>),
     TableElement(<<>>),
     TableElement(<<<<<<"s">>, <<"t", "\n", "u">>>>, <<<<" ">>, <<"s">>>>>>)}

(* header and footer paragraphs, one list per section *)
SectionTexts ==
    {<<>>, <<<<<<"H">>>>>>, <<<<<<"H">>, <<" ">>>>, <<<<"H">>>>>>,
     <<<<<<" ", "F", "\n">>, <<"G">>>>>>}

DocxDocuments ==
    {UnreadableFile} \cup
    UNION {{DecoderFile(<<>>, headers, body, footers) :
                headers \in SectionTexts, footers \in SectionTexts,
                body \in [1..n -> BodyElements]}
           : n \in 0..MaxBody}

DocxOptions ==
    [use_ocr : {FALSE}, use_nougat : {FALSE}, use_gpt4v : {FALSE},
     extract_tables : BOOLEAN, extract_headers_footers : BOOLEAN,
     preserve_formatting : BOOLEAN]

NoDigest == [sha256 |-> <<>>, hex |-> 0]
NoDocument == [none |-> TRUE]

-----------------------------------------------------------------------------
(* Initial states: one call of one of the three functions *)

InitLocals ==
    /\ chunks = <<>>
    /\ current_chunk_sentences = <<>>
    /\ current_chunk_embeddings = <<>>
    /\ char_position = 0
    /\ i = 0
    /\ should_split = FALSE
    /\ overlap_sentences = <<>>
    /\ result = <<>>
    /\ heap = <<>>
    /\ refs = <<>>

(* SemanticChunker._create_semantic_chunks(doc_id, sentences, embeddings, metadata) *)
InitBuilder ==
    /\ entry = "create_semantic_chunks"
    /\ pc = "build"
    /\ metadata = StaleMetadata
    /\ text = <<>>
    /\ self \in BuilderConfigs
    /\ proc = NoProcessor
    /\ sentences \in SentenceLists
    /\ embeddings \in [1..Len(sentences) -> EmbeddingSet]

(* SemanticChunker.chunk_document(doc_id, content, metadata) *)
InitDocument ==
    /\ entry = "chunk_document"
    /\ pc = "split"
    /\ metadata \in MetadataInputs
    /\ text \in Texts
    /\ self \in DocumentConfigs
    /\ proc = NoProcessor
    /\ sentences = <<>>
    /\ embeddings = <<>>

(* BaseDocumentProcessor._create_chunks(doc_id, content, metadata) *)
InitWindow ==
    /\ entry = "create_chunks"
    /\ pc = "window"
    /\ metadata \in MetadataInputs
    /\ text \in Contents
    /\ self = NoConfig
    /\ proc \in ProcessorConfigs
    /\ sentences = <<>>
    /\ embeddings = <<>>

(* SemanticChunker._split_into_sentences(text) *)
InitSegmenter ==
    /\ entry = "split_into_sentences"
    /\ pc = "split"
    /\ metadata = <<>>
    /\ text \in SegmenterTexts
    /\ self = NoConfig
    /\ proc = NoProcessor
    /\ sentences = <<>>
    /\ embeddings = <<>>

(* no file processing is involved in these calls *)
InitNoPipeline ==
    /\ kind = "none"
    /\ file_path = <<>>
    /\ user_context = <<>>
    /\ now = 0
    /\ timestamp = 0
    /\ checksum = NoDigest
    /\ error = ""
    /\ processed_doc = NoDocument
    /\ previous = <<>>
    /\ document = NoFile
    /\ options = NoOptions

Init ==
    /\ doc_id \in DocIds
    /\ InitLocals
    /\ InitNoPipeline
    /\ (InitBuilder \/ InitDocument \/ InitWindow)

(* processor.process_document(file_path, user_context) and                 *)
(* processor.extract_metadata(file_path) on a PDF or DOCX processor        *)
InitPipeline ==
    /\ entry \in {"process_document", "extract_metadata"}
    /\ pc = IF entry = "process_document" THEN "extract" ELSE "metadata"
    /\ kind \in Kinds
    /\ proc \in PipelineConfigs
    /\ file_path \in Paths
    /\ document = FileSystem[file_path]
    /\ options = PipelineOptions
    /\ user_context \in IF entry = "process_document" THEN UserContexts
                                                       ELSE {<<>>}
    /\ now = 0
    /\ timestamp = 0
    /\ doc_id = NoDigest
    /\ checksum = NoDigest
    /\ error = ""
    /\ processed_doc = NoDocument
    /\ previous = <<>>
    /\ text = <<>>
    /\ metadata = <<>>
    /\ self = NoConfig
    /\ sentences = <<>>
    /\ embeddings = <<>>
    /\ InitLocals

-----------------------------------------------------------------------------
(* SemanticChunker.chunk_document *)

(* variant: the embedder and the builder run even when there is no sentence *)
SplitIntoSentences_always_encode ==
    /\ entry = "chunk_document"
    /\ pc = "split"
    /\ sentences' = split_into_sentences(text)
    /\ pc' = "encode"
    /\ UNCHANGED <<entry, text, doc_id, metadata, self, proc, embeddings, chunks,
                   current_chunk_sentences, current_chunk_embeddings,
                   char_position, i, should_split, overlap_sentences, result,
                   pipeline_vars>>
    /\ UNCHANGED heap_vars
    /\ UNCHANGED decoder_vars

(* lines 41-44: segment; no sentences returns [] before the embedder runs *)
SplitIntoSentences ==
    /\ entry = "chunk_document"
    /\ pc = "split"
    /\ sentences' = split_into_sentences(text)
    /\ IF sentences' = <<>>
       THEN /\ pc' = "done"
            /\ result' = <<>>
       ELSE /\ pc' = "encode"
            /\ UNCHANGED result
    /\ UNCHANGED <<entry, text, doc_id, metadata, self, proc, embeddings, chunks,
                   current_chunk_sentences, current_chunk_embeddings,
                   char_position, i, should_split, overlap_sentences>>
    /\ UNCHANGED pipeline_vars
    /\ UNCHANGED heap_vars
    /\ UNCHANGED decoder_vars

(* _split_into_sentences called on its own: the cleaned list is returned *)
Segment ==
    /\ entry = "split_into_sentences"
    /\ pc = "split"
    /\ sentences' = split_into_sentences(text)
    /\ result' = sentences'
    /\ pc' = "done"
    /\ UNCHANGED <<entry, text, doc_id, metadata, self, proc, embeddings, chunks,
                   current_chunk_sentences, current_chunk_embeddings,
                   char_position, i, should_split, overlap_sentences>>
    /\ UNCHANGED pipeline_vars
    /\ UNCHANGED heap_vars
    /\ UNCHANGED decoder_vars

(* line 47: self.model.encode(sentences), one vector per sentence; the     *)
(* model maps equal sentences to equal vectors                             *)
Encode ==
    /\ pc = "encode"
    /\ embeddings' \in {e \in [1..Len(sentences) -> EmbeddingSet] :
                           \A a, b \in 1..Len(sentences) :
                               sentences[a] = sentences[b] => e[a] = e[b]}
    /\ pc' = "build"
    /\ UNCHANGED <<entry, text, doc_id, metadata, self, proc, sentences, chunks,
                   current_chunk_sentences, current_chunk_embeddings,
                   char_position, i, should_split, overlap_sentences, result>>
    /\ UNCHANGED pipeline_vars
    /\ UNCHANGED heap_vars
    /\ UNCHANGED decoder_vars

-----------------------------------------------------------------------------
(* SemanticChunker._create_semantic_chunks *)

(* lines 87-90; sentences[0] of an empty list raises IndexError *)
BuildStart ==
    /\ pc = "build"
    /\ IF sentences = <<>>
       THEN /\ pc' = "raised"
            /\ UNCHANGED <<chunks, current_chunk_sentences,
                           current_chunk_embeddings, char_position, i>>
       ELSE /\ pc' = "loop"
            /\ chunks' = <<>>
            /\ current_chunk_sentences' = <<sentences[1]>>
            /\ current_chunk_embeddings' = <<embeddings[1]>>
            /\ char_position' = 0
            /\ i' = 1
    /\ UNCHANGED <<entry, text, doc_id, metadata, self, proc, sentences,
                   embeddings, should_split, overlap_sentences, result>>
    /\ UNCHANGED pipeline_vars
    /\ UNCHANGED heap_vars
    /\ UNCHANGED decoder_vars

current_chunk_text == Join(current_chunk_sentences)
current_length == Len(current_chunk_text)

(* lines 94-109 for the sentence at Python index i *)
ShouldSplit ==
    split_test(similarity_below(np_mean(current_chunk_embeddings),
                                embeddings[i + 1], self.similarity_threshold),
               current_length, Len(sentences[i + 1]), self)

(* lines 111-140: emit the buffer and reseed it with the overlap *)
LoopSplit ==
    /\ pc = "loop"
    /\ i < Len(sentences)
    /\ ShouldSplit
    /\ should_split' = TRUE
    /\ \E emitted \in {add_chunk(emit_chunk(chunks, doc_id, current_chunk_text,
                                           char_position, metadata,
                                           np_mean(current_chunk_embeddings)),
                                Memory(heap, metadata), refs)} :
           /\ chunks' = emitted.chunks
           /\ heap' = emitted.mem.heap
           /\ metadata' = emitted.mem.caller
           /\ refs' = emitted.refs
    /\ overlap_sentences' =
           get_overlap_sentences(current_chunk_sentences, self.chunk_overlap)
    /\ current_chunk_sentences' =
           reseed_sentences(overlap_sentences', sentences[i + 1])
    /\ current_chunk_embeddings' =
           overlap_embeddings(current_chunk_embeddings, Len(overlap_sentences'),
                              embeddings[i + 1])
    /\ char_position' =
           advance_position(char_position, current_length, overlap_sentences')
    /\ i' = i + 1
    /\ UNCHANGED <<entry, pc, text, doc_id, self, proc, sentences,
                   embeddings, result>>
    /\ UNCHANGED pipeline_vars
    /\ UNCHANGED decoder_vars

(* lines 141-144: add the sentence to the current chunk *)
LoopAppend ==
    /\ pc = "loop"
    /\ i < Len(sentences)
    /\ ~ShouldSplit
    /\ should_split' = FALSE
    /\ current_chunk_sentences' = Append(current_chunk_sentences, sentences[i + 1])
    /\ current_chunk_embeddings' = Append(current_chunk_embeddings, embeddings[i + 1])
    /\ i' = i + 1
    /\ UNCHANGED <<entry, pc, text, doc_id, metadata, self, proc, sentences,
                   embeddings, chunks, char_position, overlap_sentences, result>>
    /\ UNCHANGED pipeline_vars
    /\ UNCHANGED heap_vars
    /\ UNCHANGED decoder_vars

(* variant: the residual buffer is not emitted *)
final_chunks_dropped(cs, buf, embs, pos, d, md) == cs

(* lines 146-158: the residual buffer becomes the final chunk *)
final_chunks(cs, buf, embs, pos, d, md) ==
    IF buf # <<>>
    THEN emit_chunk(cs, d, Join(buf), pos, md, np_mean(embs))
    ELSE cs

(* lines 146-164: final chunk, total_chunks stamped on every chunk, return *)
Finish ==
    /\ pc = "loop"
    /\ i >= Len(sentences)
    /\ \E all \in {final_chunks(chunks, current_chunk_sentences,
                                 current_chunk_embeddings, char_position,
                                 doc_id, metadata)} :
       \E final \in {IF Len(all) > Len(chunks)
                     THEN add_chunk(all, Memory(heap, metadata), refs)
                     ELSE [chunks |-> chunks, mem |-> Memory(heap, metadata),
                           refs |-> refs]} :
       \E stamped \in {stamp_total_chunks(final.chunks)} :
       \E mem \in {store_metadata(final.mem, final.refs, stamped, 1)} :
           /\ chunks' = deref(stamped, mem, final.refs)
           /\ heap' = mem.heap
           /\ metadata' = mem.caller
           /\ refs' = final.refs
    /\ result' = chunks'
    /\ pc' = "done"
    /\ UNCHANGED <<entry, text, doc_id, self, proc, sentences,
                   embeddings, current_chunk_sentences, current_chunk_embeddings,
                   char_position, i, should_split, overlap_sentences>>
    /\ UNCHANGED pipeline_vars
    /\ UNCHANGED decoder_vars

-----------------------------------------------------------------------------
(* BaseDocumentProcessor._create_chunks: the sliding window *)

(* variant: the step is kept positive *)
window_step_positive == Max({1, proc.chunk_size - proc.chunk_overlap})

window_step == proc.chunk_size - proc.chunk_overlap

(* variant: the stop value itself is yielded *)
range_yields_inclusive(v, stop, step) ==
    IF step > 0 THEN v <= stop ELSE v >= stop

(* whether range(0, stop, step) yields the value v it has advanced to *)
range_yields(v, stop, step) ==
    IF step > 0 THEN v < stop ELSE v > stop

min(a, b) == IF a < b THEN a ELSE b

(* lines 112-130: the chunk of the window starting at start *)
window_chunk(d, content, start, chunk_size, chunk_index, md) ==
    [id          |-> ChunkId(d, chunk_index),
     document_id |-> d,
     content     |-> Slice(content, start, min(start + chunk_size, Len(content))),
     embedding   |-> NoEmbedding,
     metadata    |-> Merge(md, [chunk_index  |-> chunk_index,
                                total_chunks |-> -1]),
     start_char  |-> start,
     end_char    |-> min(start + chunk_size, Len(content)),
     chunk_index |-> chunk_index]

(* lines 108-111: range() with a step of zero raises ValueError *)
WindowStart ==
    /\ pc = "window"
    /\ IF window_step = 0
       THEN pc' = "raised"
       ELSE pc' = "wloop"
    /\ chunks' = <<>>
    /\ i' = 0
    /\ UNCHANGED <<entry, text, doc_id, metadata, self, proc, sentences,
                   embeddings, current_chunk_sentences, current_chunk_embeddings,
                   char_position, should_split, overlap_sentences, result>>
    /\ UNCHANGED pipeline_vars
    /\ UNCHANGED heap_vars
    /\ UNCHANGED decoder_vars

(* lines 111-132: one iteration of the loop *)
WindowChunk ==
    /\ pc = "wloop"
    /\ range_yields(i, Len(text), window_step)
    /\ LET built == add_chunk(Append(chunks,
                                      window_chunk(doc_id, text, i, proc.chunk_size,
                                                   Len(chunks), metadata)),
                              Memory(heap, metadata), refs)
       IN  /\ chunks' = built.chunks
           /\ heap' = built.mem.heap
           /\ metadata' = built.mem.caller
           /\ refs' = built.refs
    /\ i' = i + window_step
    /\ UNCHANGED <<entry, pc, text, doc_id, self, proc, sentences,
                   embeddings, current_chunk_sentences, current_chunk_embeddings,
                   char_position, should_split, overlap_sentences, result>>
    /\ UNCHANGED pipeline_vars
    /\ UNCHANGED decoder_vars

(* lines 134-138: total_chunks stamped on every chunk, return *)
WindowFinish ==
    /\ pc = "wloop"
    /\ ~range_yields(i, Len(text), window_step)
    /\ LET stamped == stamp_total_chunks(chunks)
           mem     == store_metadata(Memory(heap, metadata), refs, stamped, 1)
       IN  /\ chunks' = deref(stamped, mem, refs)
           /\ heap' = mem.heap
           /\ metadata' = mem.caller
    /\ UNCHANGED refs
    /\ result' = chunks'
    /\ pc' = IF entry = "process_document" THEN "assemble" ELSE "done"
    /\ UNCHANGED <<entry, text, doc_id, self, proc, sentences,
                   embeddings, current_chunk_sentences, current_chunk_embeddings,
                   char_position, i, should_split, overlap_sentences>>
    /\ UNCHANGED pipeline_vars
    /\ UNCHANGED decoder_vars

-----------------------------------------------------------------------------
(* BaseDocumentProcessor.process_document *)

(* variant: a failed extraction is swallowed and the pipeline carries on   *)
(* with whatever content there is                                          *)
ExtractContent_swallowed ==
    /\ pc = "extract"
    /\ text' = extract_content(kind, document, options)
    /\ pc' = IF entry = "extract_content" THEN "done" ELSE "metadata"
    /\ UNCHANGED <<entry, doc_id, metadata, self, proc, sentences, embeddings,
                   chunks, current_chunk_sentences, current_chunk_embeddings,
                   char_position, i, should_split, overlap_sentences, result,
                   pipeline_vars>>
    /\ UNCHANGED heap_vars
    /\ UNCHANGED decoder_vars

(* line 63: content = self.extract_content(file_path); the decoders log    *)
(* the exception and re-raise it (pdf_processor.py 63-65,                  *)
(* docx_processor.py 77-79), and process_document does not catch it        *)
ExtractContent ==
    /\ pc = "extract"
    /\ IF document.raises # ""
       THEN /\ pc' = "raised"
            /\ error' = document.raises
            /\ UNCHANGED text
       ELSE /\ pc' = IF entry = "extract_content" THEN "done" ELSE "metadata"
            /\ text' = extract_content(kind, document, options)
            /\ UNCHANGED error
    /\ UNCHANGED <<entry, doc_id, metadata, self, proc, sentences, embeddings,
                   chunks, current_chunk_sentences, current_chunk_embeddings,
                   char_position, i, should_split, overlap_sentences, result,
                   kind, file_path, user_context, now, timestamp, checksum,
                   processed_doc, previous>>
    /\ UNCHANGED heap_vars
    /\ UNCHANGED decoder_vars

(* line 64: metadata = self.extract_metadata(file_path); also the direct   *)
(* call processor.extract_metadata(file_path), which returns the mapping   *)
ExtractMetadata ==
    /\ pc = "metadata"
    /\ metadata' = extract_metadata(kind, file_path, document)
    /\ pc' = IF entry = "extract_metadata" THEN "done" ELSE "identify"
    /\ UNCHANGED <<entry, text, doc_id, self, proc, sentences, embeddings,
                   chunks, current_chunk_sentences, current_chunk_embeddings,
                   char_position, i, should_split, overlap_sentences, result,
                   pipeline_vars>>
    /\ UNCHANGED heap_vars
    /\ UNCHANGED decoder_vars

(* lines 66-72: user context, document id (reads the clock), checksum *)
Identify ==
    /\ pc = "identify"
    /\ metadata' = add_user_context(metadata, user_context)
    /\ \E t \in now..MaxTime :
           /\ now' = t
           /\ timestamp' = t
           /\ doc_id' = generate_document_id(file_path, t)
    /\ checksum' = calculate_checksum(text)
    /\ pc' = "window"
    /\ UNCHANGED <<entry, text, self, proc, sentences, embeddings,
                   chunks, current_chunk_sentences, current_chunk_embeddings,
                   char_position, i, should_split, overlap_sentences, result,
                   kind, file_path, user_context, error, processed_doc,
                   previous>>
    /\ UNCHANGED heap_vars
    /\ UNCHANGED decoder_vars

(* lines 77-89: the ProcessedDocument is built and returned *)
BuildProcessedDocument ==
    /\ pc = "assemble"
    /\ \E t \in now..MaxTime :
           /\ now' = t
           /\ processed_doc' = [id                   |-> doc_id,
                                source_path          |-> file_path,
                                content              |-> text,
                                chunks               |-> result,
                                metadata             |-> metadata,
                                processing_timestamp |-> t,
                                checksum             |-> checksum]
    /\ pc' = "done"
    /\ UNCHANGED <<entry, text, doc_id, metadata, self, proc, sentences,
                   embeddings, chunks, current_chunk_sentences,
                   current_chunk_embeddings, char_position, i, should_split,
                   overlap_sentences, result, kind, file_path, user_context,
                   timestamp, checksum, error, previous>>
    /\ UNCHANGED heap_vars
    /\ UNCHANGED decoder_vars

(* the caller keeps the returned document and calls process_document of    *)
(* the same processor once more                                            *)
ProcessAgain ==
    /\ entry = "process_document"
    /\ pc = "done"
    /\ previous = <<>>
    /\ previous' = <<[file_path    |-> file_path,
                      user_context |-> user_context,
                      timestamp    |-> timestamp,
                      document     |-> processed_doc]>>
    /\ file_path' \in Paths
    /\ user_context' \in UserContexts
    /\ pc' = "extract"
    /\ text' = <<>>
    /\ metadata' = <<>>
    /\ doc_id' = NoDigest
    /\ checksum' = NoDigest
    /\ timestamp' = 0
    /\ processed_doc' = NoDocument
    /\ chunks' = <<>>
    /\ result' = <<>>
    /\ i' = 0
    /\ heap' = <<>>
    /\ refs' = <<>>
    /\ document' = FileSystem[file_path']
    /\ UNCHANGED options
    /\ UNCHANGED <<entry, self, proc, sentences, embeddings,
                   current_chunk_sentences, current_chunk_embeddings,
                   char_position, should_split, overlap_sentences, kind, now,
                   error>>

-----------------------------------------------------------------------------

Next ==
    \/ SplitIntoSentences
    \/ Encode
    \/ BuildStart
    \/ LoopSplit
    \/ LoopAppend
    \/ Finish
    \/ WindowStart
    \/ WindowChunk
    \/ WindowFinish

Spec == Init /\ [][Next]_vars

(* one call of _create_semantic_chunks: the body is a sequential loop, so  *)
(* a step that can be taken is eventually taken                            *)
InitSemanticBuilder ==
    /\ doc_id \in DocIds
    /\ InitLocals
    /\ InitNoPipeline
    /\ InitBuilder

NextBuilder ==
    \/ BuildStart
    \/ LoopSplit
    \/ LoopAppend
    \/ Finish

SpecBuilder == InitSemanticBuilder /\ [][NextBuilder]_vars /\ WF_vars(NextBuilder)

(* calls of _split_into_sentences *)
InitSegmenterCall ==
    /\ doc_id \in DocIds
    /\ InitLocals
    /\ InitNoPipeline
    /\ InitSegmenter

SpecSegmenter == InitSegmenterCall /\ [][Segment]_vars

(* DOCXProcessor._format_table(table) called on its own *)
FormatTable ==
    /\ entry = "format_table"
    /\ pc = "format"
    /\ text' = format_table(document.rows)
    /\ pc' = "done"
    /\ UNCHANGED <<entry, doc_id, metadata, self, proc, sentences, embeddings,
                   chunks, current_chunk_sentences, current_chunk_embeddings,
                   char_position, i, should_split, overlap_sentences, result>>
    /\ UNCHANGED pipeline_vars
    /\ UNCHANGED heap_vars
    /\ UNCHANGED decoder_vars

(* processor.extract_content(file_path) of a PDF or DOCX processor and     *)
(* processor._format_table(table) of a DOCX processor                      *)
InitDecoder ==
    /\ doc_id = NoDigest
    /\ InitLocals
    /\ text = <<>>
    /\ metadata = <<>>
    /\ self = NoConfig
    /\ proc = NoProcessor
    /\ sentences = <<>>
    /\ embeddings = <<>>
    /\ file_path = <<>>
    /\ user_context = <<>>
    /\ now = 0
    /\ timestamp = 0
    /\ checksum = NoDigest
    /\ error = ""
    /\ processed_doc = NoDocument
    /\ previous = <<>>
    /\ \/ /\ entry = "extract_content"
          /\ pc = "extract"
          /\ kind = "pdf"
          /\ document \in PdfDocuments
          /\ options \in PdfOptions
       \/ /\ entry = "extract_content"
          /\ pc = "extract"
          /\ kind = "docx"
          /\ document \in DocxDocuments
          /\ options \in DocxOptions
       \/ /\ entry = "format_table"
          /\ pc = "format"
          /\ kind = "docx"
          /\ document \in {TableElement(rows) : rows \in Tables}
          /\ options \in DocxOptions

NextDecoder ==
    \/ ExtractContent
    \/ FormatTable

SpecDecoder == InitDecoder /\ [][NextDecoder]_vars

(* the calls of a document processor *)
NextPipeline ==
    \/ ExtractContent
    \/ ExtractMetadata
    \/ Identify
    \/ WindowStart
    \/ WindowChunk
    \/ WindowFinish
    \/ BuildProcessedDocument
    \/ ProcessAgain

SpecPipeline == InitPipeline /\ [][NextPipeline]_vars

-----------------------------------------------------------------------------
(* Vocabulary of the properties *)

Semantic == entry \in {"create_semantic_chunks", "chunk_document"}

(* the loop has just emitted a chunk and reseeded the buffer *)
AfterSplit == Semantic /\ pc = "loop" /\ should_split

(* the call has returned its list *)
Returned == pc = "done"

Last(q) == q[Len(q)]

IsSuffix(a, b) == Len(a) <= Len(b) /\ SubSeq(b, Len(b) - Len(a) + 1, Len(b)) = a

RECURSIVE SumLen(_)
SumLen(ss) == IF ss = <<>> THEN 0 ELSE Len(ss[1]) + SumLen(Tail(ss))

(* the last k elements of a list *)
Suffix(q, k) == SubSeq(q, Len(q) - k + 1, Len(q))

-----------------------------------------------------------------------------
(* C1: every chunk the semantic builder emits has len(content) <=          *)
(* max_chunk_size, unless the chunk is exactly one sentence that is itself *)
(* longer than max_chunk_size; reseeded and final chunks included.         *)
C1_SizeEnvelope ==
    Semantic =>
        \A k \in 1..Len(chunks) :
            \/ Len(chunks[k].content) <= self.max_chunk_size
            \/ \E j \in 1..Len(sentences) :
                   /\ chunks[k].content = sentences[j]
                   /\ Len(sentences[j]) > self.max_chunk_size

-----------------------------------------------------------------------------
(* C2: processing sentence i, the builder emits the buffer as a chunk and  *)
(* reseeds if and only if the similarity of the buffer's centroid to       *)
(* embeddings[i] is below the threshold, or the joined buffer is longer    *)
(* than max_chunk_size, or it is longer than min_chunk_size and would      *)
(* exceed max_chunk_size with sentence i; otherwise sentence i and its     *)
(* vector are appended and no chunk is emitted.                            *)
C2_Emitted ==
    /\ Len(chunks') = Len(chunks) + 1
    /\ SubSeq(chunks', 1, Len(chunks)) = chunks
    /\ Last(chunks').content = Join(current_chunk_sentences)
    /\ Last(current_chunk_sentences') = sentences[i + 1]
    /\ IsSuffix(SubSeq(current_chunk_sentences', 1,
                       Len(current_chunk_sentences') - 1),
                current_chunk_sentences)

C2_Appended ==
    /\ chunks' = chunks
    /\ current_chunk_sentences' = current_chunk_sentences \o <<sentences[i + 1]>>
    /\ current_chunk_embeddings' = current_chunk_embeddings \o <<embeddings[i + 1]>>

C2_Condition ==
    LET buffer_len == Len(Join(current_chunk_sentences))
    IN  \/ similarity_below(np_mean(current_chunk_embeddings), embeddings[i + 1],
                            self.similarity_threshold)
        \/ buffer_len > self.max_chunk_size
        \/ (buffer_len > self.min_chunk_size
            /\ buffer_len + Len(sentences[i + 1]) > self.max_chunk_size)

C2_SplitDecision ==
    [][(Semantic /\ pc = "loop" /\ i < Len(sentences)) =>
          /\ C2_Condition => C2_Emitted
          /\ ~C2_Condition => C2_Appended
          /\ C2_Emitted <=> C2_Condition]_vars

(* a split caused by the third clause alone: the emitted buffer was within *)
(* max_chunk_size and similar enough to the triggering sentence            *)
C2_Witness ==
    /\ AfterSplit
    /\ Len(Last(chunks).content) <= self.max_chunk_size
    /\ Len(Last(chunks).content) > self.min_chunk_size
    /\ Len(Last(chunks).content) + Len(Last(current_chunk_sentences))
           > self.max_chunk_size
    /\ ~similarity_below(Last(chunks).embedding, Last(current_chunk_embeddings),
                         self.similarity_threshold)

-----------------------------------------------------------------------------
(* C3: every chunk returned by chunk_document has                          *)
(* min_chunk_size <= len(content) <= max_chunk_size.                       *)
C3_TestSizeBounds ==
    (Returned /\ entry = "chunk_document") =>
        \A k \in 1..Len(result) :
            /\ self.min_chunk_size <= Len(result[k].content)
            /\ Len(result[k].content) <= self.max_chunk_size

-----------------------------------------------------------------------------
(* the text carried into the new buffer by the split that has just happened *)
carried_text == Join(overlap_sentences)

C4_CarriedIsSharedText ==
    /\ Join(current_chunk_sentences)
           = carried_text \o <<" ">> \o Last(current_chunk_sentences)
    /\ IsSuffix(carried_text, Last(chunks).content)

-----------------------------------------------------------------------------
Min(S) == CHOOSE x \in S : \A y \in S : x <= y

(* the longest suffix whose single-space join has length >= target, the    *)
(* empty suffix when there is none                                         *)
LongestSuffixReaching(ss, target) ==
    LET ks == {k \in 0..Len(ss) : Len(Join(Suffix(ss, k))) >= target}
    IN  IF ks = {} THEN <<>> ELSE Suffix(ss, Max(ks))

(* the shortest non-empty suffix whose summed sentence lengths reach the   *)
(* target, the whole list when there is none                               *)
ShortestSuffixReaching(ss, target) ==
    LET ks == {k \in 1..Len(ss) : SumLen(Suffix(ss, k)) >= target}
    IN  IF ks = {} THEN ss ELSE Suffix(ss, Min(ks))

SplitStep ==
    /\ Semantic
    /\ pc = "loop"
    /\ i < Len(sentences)
    /\ Len(chunks') = Len(chunks) + 1

-----------------------------------------------------------------------------
(* every whitespace run replaced by one space *)
RECURSIVE CollapseWhitespace(_)
CollapseWhitespace(s) ==
    IF s = <<>> THEN <<>>
    ELSE IF s[1] \in Whitespace THEN <<" ">> \o CollapseWhitespace(LStrip(s))
    ELSE <<s[1]>> \o CollapseWhitespace(Tail(s))

(* C6: for every chunk chunk_document returns, text[start_char:end_char]   *)
(* equals the chunk's content up to replacing whitespace runs by single    *)
(* spaces, for any text: leading whitespace, longer whitespace runs        *)
(* between sentences, dropped short candidates.                            *)
C6_ChunkContiguity ==
    (Returned /\ entry = "chunk_document") =>
        \A k \in 1..Len(result) :
            CollapseWhitespace(Slice(text, result[k].start_char, result[k].end_char))
                = CollapseWhitespace(result[k].content)

-----------------------------------------------------------------------------
(* sentence j of the input is one of the sentences joined in content *)
MemberOf(j, content) ==
    \E a \in 1..j, b \in j..Len(sentences) :
        content = Join(SubSeq(sentences, a, b))

(* C7: for a non-empty sentence list, chunks[0].start_char == 0 and every  *)
(* input sentence is a member of at least one returned chunk.              *)
C7_Coverage ==
    (Returned /\ Semantic /\ sentences # <<>>) =>
        /\ Len(result) >= 1
        /\ result[1].start_char = 0
        /\ \A j \in 1..Len(sentences) :
               \E k \in 1..Len(result) : MemberOf(j, result[k].content)

(* a returned list built through at least two splits *)
C7_Witness ==
    /\ Returned
    /\ entry = "create_semantic_chunks"
    /\ Len(sentences) = MaxSentences
    /\ Len(result) >= 3

-----------------------------------------------------------------------------
(* C8: in every list the semantic builder returns, chunks[i].chunk_index   *)
(* == i, start_char never decreases from one chunk to the next, and        *)
(* end_char - start_char == len(content) for every chunk.                  *)
C8_Ordering ==
    (Returned /\ Semantic) =>
        \A k \in 1..Len(result) :
            /\ result[k].chunk_index = k - 1
            /\ result[k].end_char - result[k].start_char = Len(result[k].content)
            /\ k < Len(result) => result[k].start_char <= result[k + 1].start_char

(* a returned list in which one chunk starts where its predecessor starts  *)
(* and a later one starts further on                                       *)
C8_Witness ==
    /\ Returned
    /\ Semantic
    /\ Len(result) >= 3
    /\ result[1].start_char = result[2].start_char
    /\ result[2].start_char < result[3].start_char

-----------------------------------------------------------------------------
(* C9: in every list returned by _create_semantic_chunks and by            *)
(* BaseDocumentProcessor._create_chunks, every chunk's                     *)
(* metadata["total_chunks"] equals the length of the list.                 *)
C9_TotalChunks ==
    Returned =>
        \A k \in 1..Len(result) :
            /\ "total_chunks" \in DOMAIN result[k].metadata
            /\ result[k].metadata["total_chunks"] = Len(result)

(* the sliding window returned several chunks for metadata that already    *)
(* held a total_chunks entry                                               *)
C9_Witness ==
    /\ Returned
    /\ entry = "create_chunks"
    /\ metadata = StaleMetadata
    /\ Len(result) >= 2

-----------------------------------------------------------------------------
(* C10: the buffer of vectors is as long as the buffer of sentences and    *)
(* its j-th vector is the embedding of the j-th buffered sentence, also    *)
(* after an overlap reseed; every emitted chunk's embedding is the mean of *)
(* the embeddings of exactly the sentences joined in its content.          *)
C10_EmbeddingAlignment ==
    (Semantic /\ pc \in {"loop", "done"}) =>
        /\ Len(current_chunk_embeddings) = Len(current_chunk_sentences)
        /\ \A j \in 1..Len(current_chunk_sentences) :
               \E m \in 1..Len(sentences) :
                   /\ sentences[m] = current_chunk_sentences[j]
                   /\ embeddings[m] = current_chunk_embeddings[j]
        /\ \A k \in 1..Len(chunks) :
               \E a \in 1..Len(sentences), b \in 1..Len(sentences) :
                   /\ a <= b
                   /\ chunks[k].content = Join(SubSeq(sentences, a, b))
                   /\ MeanEq(chunks[k].embedding, np_mean(SubSeq(embeddings, a, b)))

(* a reseed that carried only part of a buffer holding different vectors *)
C10_Witness ==
    /\ AfterSplit
    /\ overlap_sentences # <<>>
    /\ Last(chunks).embedding.n > Len(overlap_sentences)
    /\ Last(chunks).embedding.sum[1] > 0
    /\ Last(chunks).embedding.sum[2] > 0

-----------------------------------------------------------------------------
(* C11: chunk_document on a text that yields no sentence returns the empty *)
(* list without raising and without running the embedder; when there is    *)
(* exactly one sentence the call returns exactly one chunk whose content   *)
(* is that sentence, whatever its length relative to min_chunk_size and    *)
(* max_chunk_size.                                                         *)
C11_EdgeCases ==
    /\ (entry = "chunk_document" /\ pc # "split"
            /\ split_into_sentences(text) = <<>>)
          => (pc = "done" /\ result = <<>> /\ embeddings = <<>>)
    /\ (entry = "chunk_document" /\ pc \in {"done", "raised"}
            /\ Len(split_into_sentences(text)) = 1)
          => /\ pc = "done"
             /\ Len(result) = 1
             /\ result[1].content = split_into_sentences(text)[1]
    /\ (entry = "create_semantic_chunks" /\ pc \in {"done", "raised"}
            /\ Len(sentences) = 1)
          => /\ pc = "done"
             /\ Len(result) = 1
             /\ result[1].content = sentences[1]

(* a text of one sentence shorter than min_chunk_size was chunked *)
C11_Witness ==
    /\ entry = "chunk_document"
    /\ Returned
    /\ Len(split_into_sentences(text)) = 1
    /\ Len(result) = 1
    /\ Len(result[1].content) < self.min_chunk_size

-----------------------------------------------------------------------------
(* the vectors of sentences 1..k-1 taken together, as the builder sees     *)
(* them while no split has happened                                        *)
NoLowSimilarity ==
    \A k \in 2..Len(sentences) :
        ~similarity_below(np_mean(SubSeq(embeddings, 1, k - 1)), embeddings[k],
                          self.similarity_threshold)

(* C12: no split without cause: when every sentence's similarity to the    *)
(* running centroid is at least the threshold and the single-space join of *)
(* all sentences is no longer than max_chunk_size, the builder returns     *)
(* exactly one chunk, with start_char 0 and all sentences joined by single *)
(* spaces as its content.                                                  *)
C12_NoSplitWithoutCause ==
    (Semantic /\ Returned /\ sentences # <<>> /\ NoLowSimilarity
        /\ Len(Join(sentences)) <= self.max_chunk_size)
      => /\ Len(result) = 1
         /\ result[1].start_char = 0
         /\ result[1].content = Join(sentences)

(* several similar sentences that fit were returned as one chunk, longer   *)
(* than min_chunk_size                                                     *)
C12_Witness ==
    /\ Semantic
    /\ Returned
    /\ Len(sentences) >= 3
    /\ NoLowSimilarity
    /\ Len(Join(sentences)) <= self.max_chunk_size
    /\ Len(Join(sentences)) > self.min_chunk_size
    /\ Len(result) = 1

-----------------------------------------------------------------------------
(* Vocabulary of the properties of process_document *)

(* process_document has returned its ProcessedDocument *)
DocumentReturned == entry = "process_document" /\ pc = "done"

(* this call and an earlier one have both returned *)
BothReturned == DocumentReturned /\ previous # <<>>

(* the two calls had the same arguments (the processor and the files are   *)
(* the same throughout)                                                    *)
SameArguments ==
    /\ BothReturned
    /\ previous[1].file_path = file_path
    /\ previous[1].user_context = user_context

(* a chunk without its id and document_id *)
Unidentified(c) ==
    [content |-> c.content, embedding |-> c.embedding, metadata |-> c.metadata,
     start_char |-> c.start_char, end_char |-> c.end_char,
     chunk_index |-> c.chunk_index]

-----------------------------------------------------------------------------
(* C13, as stated: two calls of process_document on the same file (same    *)
(* path, same configuration) return identical content, identical checksum  *)
(* and the identical chunk sequence, every field of every chunk equal, id  *)
(* and document_id included, whenever the two calls are made.              *)
C13_IdenticalChunkSequence ==
    SameArguments =>
        /\ processed_doc.content = previous[1].document.content
        /\ processed_doc.checksum = previous[1].document.checksum
        /\ processed_doc.chunks = previous[1].document.chunks

(* C13, amended: the two calls return identical content, checksum and      *)
(* metadata, and chunk sequences that agree in every field except id and   *)
(* document_id; the document id, and with it every chunk's id and          *)
(* document_id, is the same in both results exactly when both calls read   *)
(* the same clock instant for the id.                                      *)
C13_DeterminismUpToId ==
    SameArguments =>
        LET a == previous[1].document
            b == processed_doc
        IN  /\ b.content = a.content
            /\ b.checksum = a.checksum
            /\ b.metadata = a.metadata
            /\ Len(b.chunks) = Len(a.chunks)
            /\ \A k \in 1..Len(b.chunks) :
                   /\ Unidentified(b.chunks[k]) = Unidentified(a.chunks[k])
                   /\ (b.chunks[k].id = a.chunks[k].id)
                          <=> (timestamp = previous[1].timestamp)
                   /\ (b.chunks[k].document_id = a.chunks[k].document_id)
                          <=> (timestamp = previous[1].timestamp)
            /\ (b.id = a.id) <=> (timestamp = previous[1].timestamp)

(* the same file was processed twice, at different instants, into chunks *)
C13_Witness ==
    /\ SameArguments
    /\ timestamp # previous[1].timestamp
    /\ Len(processed_doc.chunks) >= 2
    /\ processed_doc.id # previous[1].document.id

-----------------------------------------------------------------------------
(* C14: the chunks of every ProcessedDocument returned by process_document *)
(* come from the semantic builder: each chunk's metadata has chunk_method  *)
(* "semantic" and chunk_size = len(content), each chunk is a single-space  *)
(* join of whole sentences of the content, and each carries an embedding.  *)
C14_SemanticChunks ==
    DocumentReturned =>
        \A k \in 1..Len(processed_doc.chunks) :
            LET c == processed_doc.chunks[k]
                ss == split_into_sentences(processed_doc.content)
            IN  /\ "chunk_method" \in DOMAIN c.metadata
                /\ c.metadata.chunk_method = "semantic"
                /\ "chunk_size" \in DOMAIN c.metadata
                /\ c.metadata.chunk_size = Len(c.content)
                /\ \E a, b \in 1..Len(ss) : c.content = Join(SubSeq(ss, a, b))
                /\ c.embedding # NoEmbedding

-----------------------------------------------------------------------------
(* C15: in every document process_document returns, the chunk at position  *)
(* n (from 0) has document_id equal to the document's id and id            *)
(* "{document id}_chunk_{n}"; the chunk ids of a document are pairwise     *)
(* distinct.                                                               *)
C15_ChunkIdentity ==
    DocumentReturned =>
        /\ \A k \in 1..Len(processed_doc.chunks) :
               /\ processed_doc.chunks[k].document_id = processed_doc.id
               /\ processed_doc.chunks[k].id
                      = <<processed_doc.id, "_chunk_", k - 1>>
        /\ \A j, k \in 1..Len(processed_doc.chunks) :
               j # k => processed_doc.chunks[j].id # processed_doc.chunks[k].id

(* a document of several chunks was returned *)
C15_Witness ==
    /\ DocumentReturned
    /\ Len(processed_doc.chunks) >= 2
    /\ processed_doc.chunks[2].document_id = processed_doc.id

-----------------------------------------------------------------------------
(* C16: the document id is the first 16 hexadecimal characters of the      *)
(* SHA-256 of "{path}:{timestamp}", the timestamp being the ISO-8601       *)
(* rendering of the instant the call read; it depends on the path and the  *)
(* instant only: calls with different paths return different ids, calls    *)
(* with the same path at different instants return different ids, and the  *)
(* same path at the same instant gives the same id (SHA-256 taken as       *)
(* collision-free).                                                        *)
C16_DocumentId ==
    /\ (entry = "process_document" /\ doc_id # NoDigest)
          => /\ doc_id.hex = 16
             /\ doc_id.sha256 = file_path \o <<":">> \o isoformat(timestamp)
    /\ BothReturned
          => LET a == previous[1]
             IN  /\ a.file_path # file_path => a.document.id # processed_doc.id
                 /\ (a.file_path = file_path /\ a.timestamp # timestamp)
                        => a.document.id # processed_doc.id
                 /\ (a.file_path = file_path /\ a.timestamp = timestamp)
                        => a.document.id = processed_doc.id

(* one path was processed at two different instants *)
C16_Witness ==
    /\ BothReturned
    /\ previous[1].file_path = file_path
    /\ previous[1].timestamp # timestamp
    /\ previous[1].user_context # user_context
    /\ processed_doc.id.hex = 16

-----------------------------------------------------------------------------
(* C17: the checksum of a returned document is the full SHA-256 (64        *)
(* hexadecimal characters) of exactly its content string, the string that  *)
(* was chunked; it is a function of the content only: two documents have   *)
(* equal checksums exactly when their contents are equal, whatever their   *)
(* paths, instants and metadata.                                           *)
C17_Checksum ==
    /\ DocumentReturned
          => /\ processed_doc.checksum.hex = 64
             /\ processed_doc.checksum.sha256 = processed_doc.content
             /\ \A k \in 1..Len(processed_doc.chunks) :
                    LET c == processed_doc.chunks[k]
                    IN  c.content
                            = Slice(processed_doc.content, c.start_char, c.end_char)
    /\ BothReturned
          => ((processed_doc.checksum = previous[1].document.checksum)
                 <=> (processed_doc.content = previous[1].document.content))

(* equal contents under different paths, instants and metadata *)
C17_Witness ==
    /\ BothReturned
    /\ previous[1].file_path # file_path
    /\ previous[1].timestamp # timestamp
    /\ previous[1].document.metadata # processed_doc.metadata
    /\ previous[1].document.content = processed_doc.content
    /\ processed_doc.content # <<>>
    /\ previous[1].document.checksum = processed_doc.checksum

-----------------------------------------------------------------------------
(* C18: when content extraction raises, process_document raises that error *)
(* and returns no ProcessedDocument; a ProcessedDocument exists only after *)
(* extraction, id and checksum generation and chunking have all completed  *)
(* without error.                                                          *)
C18_ErrorPropagation ==
    /\ (entry = "process_document" /\ pc # "extract"
            /\ FileSystem[file_path].raises # "")
          => /\ pc = "raised"
             /\ error = FileSystem[file_path].raises
             /\ processed_doc = NoDocument
    /\ (entry = "process_document" /\ pc = "raised")
          => processed_doc = NoDocument
    /\ processed_doc # NoDocument
          => /\ pc = "done"
             /\ FileSystem[file_path].raises = ""
             /\ processed_doc.content = FileSystem[file_path].content
             /\ processed_doc.id = doc_id /\ doc_id # NoDigest
             /\ processed_doc.checksum = checksum /\ checksum # NoDigest
             /\ proc.chunk_size # proc.chunk_overlap
             /\ processed_doc.chunks = result

(* the extraction of a missing file raised out of process_document *)
C18_Witness ==
    /\ entry = "process_document"
    /\ pc = "raised"
    /\ error = FileSystem[file_path].raises
    /\ error # ""

-----------------------------------------------------------------------------
(* the file's metadata extraction faults *)
MetadataFault == FileSystem[file_path].metadata_fault # 0

(* extract_metadata has returned its mapping into metadata *)
MetadataExtracted ==
    \/ entry = "extract_metadata" /\ pc = "done"
    \/ /\ entry = "process_document"
       /\ pc \notin {"extract", "metadata"}
       /\ FileSystem[file_path].raises = ""

(* the keys the decoders assign before the statement group that faults *)
KeysBeforeFault ==
    LET n == FileSystem[file_path].metadata_fault
    IN  IF kind = "pdf"
        THEN (IF n >= 2 /\ FileSystem[file_path].has_info
              THEN {"title", "author", "subject", "creator", "creation_date",
                    "modification_date"}
              ELSE {})
             \cup (IF n >= 3 THEN {"page_count"} ELSE {})
        ELSE (IF n >= 2
              THEN {"title", "author", "subject", "keywords", "category",
                    "comments", "created", "modified", "last_modified_by",
                    "revision"}
              ELSE {})
             \cup (IF n >= 3
                   THEN {"page_count", "word_count", "paragraph_count",
                         "table_count"}
                   ELSE {})

(* the mapping of a faulted extraction: the message and the earlier keys *)
FaultRecorded(md) ==
    /\ "extraction_error" \in DOMAIN md
    /\ md.extraction_error = FileSystem[file_path].message
    /\ KeysBeforeFault \subseteq DOMAIN md

-----------------------------------------------------------------------------
(* C20: the mapping PDFProcessor.extract_metadata(path) returns always     *)
(* contains file_type = "pdf" and file_name = basename(path), also when    *)
(* the file does not exist or cannot be parsed.                            *)
C20_PdfMetadataNamesFile ==
    (MetadataExtracted /\ kind = "pdf") =>
        /\ "file_type" \in DOMAIN metadata
        /\ metadata.file_type = "pdf"
        /\ "file_name" \in DOMAIN metadata
        /\ metadata.file_name = basename(file_path)

-----------------------------------------------------------------------------
Ceil(a, b) == (a + b - 1) \div b

(* the character positions [start_char, end_char) of a chunk *)
Range(c) == {p \in 0..(Len(text) - 1) : c.start_char <= p /\ p < c.end_char}

(* C25: for content of length n > 0 and 0 <= chunk_overlap < chunk_size,   *)
(* _create_chunks returns exactly ceil(n / (chunk_size - chunk_overlap))   *)
(* chunks; chunk k (from 0) has start_char = k * (chunk_size -             *)
(* chunk_overlap), end_char = min(start_char + chunk_size, n) and content  *)
(* text[start_char:end_char], so no chunk is longer than chunk_size,       *)
(* consecutive chunks share exactly the characters [start of the next, end *)
(* of this), and the ranges together cover [0, n).                         *)
C25_SlidingWindow ==
    (entry = "create_chunks" /\ Returned /\ Len(text) > 0
        /\ 0 <= proc.chunk_overlap /\ proc.chunk_overlap < proc.chunk_size)
      => LET n    == Len(text)
             step == proc.chunk_size - proc.chunk_overlap
         IN  /\ Len(result) = Ceil(n, step)
             /\ \A k \in 1..Len(result) :
                    LET c == result[k]
                    IN  /\ c.start_char = (k - 1) * step
                        /\ c.end_char = IF c.start_char + proc.chunk_size < n
                                        THEN c.start_char + proc.chunk_size
                                        ELSE n
                        /\ c.content = [p \in 1..(c.end_char - c.start_char)
                                            |-> text[c.start_char + p]]
                        /\ Len(c.content) <= proc.chunk_size
             /\ \A k \in 1..(Len(result) - 1) :
                    Range(result[k]) \cap Range(result[k + 1])
                        = {p \in 0..(n - 1) : result[k + 1].start_char <= p
                                              /\ p < result[k].end_char}
             /\ UNION {Range(result[k]) : k \in 1..Len(result)} = 0..(n - 1)

(* overlapping windows, the last of them cut short by the end of the text *)
C25_Witness ==
    /\ entry = "create_chunks"
    /\ Returned
    /\ proc.chunk_overlap > 0
    /\ proc.chunk_overlap < proc.chunk_size
    /\ Len(result) >= 3
    /\ Len(Last(result).content) < proc.chunk_size
    /\ Len(result[1].content) = proc.chunk_size

-----------------------------------------------------------------------------
(* offset at which sentence a (from 1) begins in the single-space join of  *)
(* all input sentences                                                     *)
Offset(a) ==
    IF a = 1 THEN 0 ELSE Len(Join(SubSeq(sentences, 1, a - 1))) + 1

(* offset just past sentence b in that join *)
OffsetPast(b) == Len(Join(SubSeq(sentences, 1, b)))

(* the chunk is the run of sentences a..b and spans exactly their offsets *)
SpansSentences(c, a, b) ==
    /\ c.content = Join(SubSeq(sentences, a, b))
    /\ c.start_char = Offset(a)
    /\ c.end_char = OffsetPast(b)

(* C27: after each split char_position has increased by len(emitted       *)
(* content) - len(single-space join of the carried sentences); measured in *)
(* the single-space join of all input sentences, the cursor is the offset  *)
(* of the buffer's first sentence, and every chunk's start_char is the     *)
(* offset at which its first sentence begins and its end_char the offset   *)
(* just past its last sentence.                                            *)
C27_CursorOffsets ==
    (Semantic /\ pc \in {"loop", "done"}) =>
        /\ AfterSplit =>
               char_position = Last(chunks).start_char + Len(Last(chunks).content)
                                   - Len(Join(overlap_sentences))
        /\ pc = "loop" =>
               LET a == i - Len(current_chunk_sentences) + 1
               IN  /\ a >= 1
                   /\ current_chunk_sentences = SubSeq(sentences, a, i)
                   /\ char_position = Offset(a)
        /\ \A k \in 1..Len(chunks) :
               \E a \in 1..Len(sentences), b \in 1..Len(sentences) :
                   /\ a <= b
                   /\ SpansSentences(chunks[k], a, b)

(* three chunks: the second starts inside the first, the third further on *)
C27_Witness ==
    /\ Returned
    /\ entry = "create_semantic_chunks"
    /\ Len(result) >= 3
    /\ result[2].start_char > 0
    /\ result[2].start_char < result[1].end_char
    /\ result[3].start_char > result[2].start_char
    /\ result[3].start_char < result[2].end_char

-----------------------------------------------------------------------------
(* just after a split: the sentences of the chunk that was emitted, the    *)
(* run that starts at the chunk's offset and ends before the triggering    *)
(* sentence                                                                *)
EmittedSentences ==
    LET a == CHOOSE a \in 1..(i - 1) : Offset(a) = Last(chunks).start_char
    IN  SubSeq(sentences, a, i - 1)

(* C28: for a non-empty sentence list and any target >= 0,                 *)
(* _get_overlap_sentences returns a non-empty suffix of the list in        *)
(* original order: the shortest one whose summed sentence lengths          *)
(* (separators not counted) reach the target, or the whole list when the   *)
(* whole list does not reach it; so every split carries at least the last  *)
(* sentence of the emitted chunk into the next chunk, even with            *)
(* chunk_overlap = 0.                                                      *)
C28_OverlapSelection ==
    AfterSplit =>
        LET emitted == EmittedSentences
            ov      == overlap_sentences
            target  == self.chunk_overlap
        IN  /\ Join(emitted) = Last(chunks).content
            /\ ov # <<>>
            /\ IsSuffix(ov, emitted)
            /\ SumLen(ov) >= target \/ ov = emitted
            /\ Len(ov) > 1 => SumLen(Tail(ov)) < target
            /\ Last(ov) = Last(emitted)
            /\ current_chunk_sentences[Len(ov)] = Last(emitted)
            /\ Len(current_chunk_sentences) = Len(ov) + 1

(* a split with chunk_overlap = 0 that emitted two sentences and carried   *)
(* the last of them                                                        *)
C28_Witness ==
    /\ AfterSplit
    /\ self.chunk_overlap = 0
    /\ Len(EmittedSentences) >= 2
    /\ overlap_sentences = <<sentences[i - 1]>>
    /\ current_chunk_sentences = <<sentences[i - 1], sentences[i]>>

(* a split whose emitted chunk does not reach the target and is carried    *)
(* whole                                                                   *)
C28_WitnessWhole ==
    /\ AfterSplit
    /\ Len(overlap_sentences) >= 2
    /\ SumLen(overlap_sentences) < self.chunk_overlap
    /\ overlap_sentences = EmittedSentences

-----------------------------------------------------------------------------
(* process_document has extracted non-empty content with a processor whose *)
(* chunk_overlap is not below its chunk_size                               *)
DegenerateStep ==
    /\ entry = "process_document"
    /\ proc.chunk_overlap >= proc.chunk_size
    /\ text # <<>>

(* the call has gone through _create_chunks *)
Chunked == pc \notin {"extract", "metadata", "identify", "window"}

(* C30: a processor with chunk_overlap >= chunk_size is constructed        *)
(* without error, and process_document on non-empty content then returns   *)
(* no document that covers the content: with chunk_overlap == chunk_size   *)
(* chunking raises and no ProcessedDocument is returned, with              *)
(* chunk_overlap > chunk_size a ProcessedDocument with non-empty content   *)
(* and zero chunks is returned.                                            *)
C30_DegenerateWindowStep ==
    DegenerateStep =>
        /\ ~Chunked => pc # "raised" /\ error = ""
        /\ (Chunked /\ proc.chunk_overlap = proc.chunk_size) =>
               /\ pc = "raised"
               /\ processed_doc = NoDocument
        /\ (Chunked /\ proc.chunk_overlap > proc.chunk_size) =>
               /\ pc \in {"wloop", "assemble", "done"}
               /\ chunks = <<>>
               /\ pc = "done" => /\ processed_doc # NoDocument
                                 /\ processed_doc.content = text
                                 /\ processed_doc.chunks = <<>>

(* a document with content and no chunk was returned *)
C30_Witness ==
    /\ DocumentReturned
    /\ proc.chunk_overlap > proc.chunk_size
    /\ Len(processed_doc.content) > proc.chunk_size
    /\ processed_doc.chunks = <<>>

(* chunking raised on non-empty content *)
C30_WitnessRaised ==
    /\ DegenerateStep
    /\ proc.chunk_overlap = proc.chunk_size
    /\ pc = "raised"

-----------------------------------------------------------------------------
(* the runs a..b of input sentences that make up chunk c *)
Runs(c) ==
    {r \in (1..Len(sentences)) \X (1..Len(sentences)) :
        r[1] <= r[2] /\ SpansSentences(c, r[1], r[2])}

(* every emitted chunk is one contiguous run of input sentences; from one  *)
(* chunk to the next the last index grows and the first never falls; at    *)
(* the return the final chunk ends with the last sentence and there are    *)
(* between 1 and n chunks                                                  *)
ContiguousRuns ==
    (entry = "create_semantic_chunks" /\ pc \in {"loop", "done"}) =>
        /\ \A k \in 1..Len(chunks) : Cardinality(Runs(chunks[k])) = 1
        /\ \A k \in 1..(Len(chunks) - 1) :
               \A r \in Runs(chunks[k]), q \in Runs(chunks[k + 1]) :
                   r[2] < q[2] /\ r[1] <= q[1]
        /\ pc = "done" =>
               /\ \A r \in Runs(Last(result)) : r[2] = Len(sentences)
               /\ 1 <= Len(result)
               /\ Len(result) <= Len(sentences)

(* one iteration of the loop over range(1, len(sentences)) *)
LoopStep == pc = "loop" /\ pc' = "loop"

(* C29: every chunk the semantic builder emits is a contiguous run of      *)
(* input sentences [a..b]; across consecutive chunks b strictly increases  *)
(* and a never decreases; the final chunk ends with the last input         *)
(* sentence; for n >= 1 sentences there are between 1 and n chunks; and    *)
(* the builder terminates after one pass over the sentences.               *)
C29_BuilderProgress ==
    /\ []ContiguousRuns
    /\ [][LoopStep => i' = i + 1 /\ i' <= Len(sentences)]_vars
    /\ (sentences # <<>>) ~> (Returned /\ i = Len(sentences))

(* a return after the longest pass, with splits and with appends *)
C29_Witness ==
    /\ Returned
    /\ entry = "create_semantic_chunks"
    /\ Len(sentences) = MaxSentences
    /\ i = Len(sentences)
    /\ Len(result) >= 2
    /\ Len(result) < Len(sentences)
    /\ \E k \in 1..(Len(result) - 1) :
           result[k].start_char = result[k + 1].start_char

-----------------------------------------------------------------------------
(* the mapping _create_chunk builds for chunk k (from 1) of the list cs *)
ChunkMetadata(cs, k) ==
    Merge(metadata, [chunk_index  |-> k - 1,
                     chunk_method |-> "semantic",
                     chunk_size   |-> Len(cs[k].content)])

(* every chunk's metadata is a mapping object of its own, not the caller's *)
FreshMappings ==
    /\ Len(refs) = Len(chunks)
    /\ \A k \in 1..Len(refs) :
           /\ refs[k] # CallerRef
           /\ refs[k] \in 1..Len(heap)
           /\ chunks[k].metadata = heap[refs[k]]
           /\ \A j \in 1..Len(refs) : j # k => refs[j] # refs[k]

(* C26: the metadata of every chunk built by SemanticChunker is a fresh    *)
(* mapping equal to the input metadata overridden with chunk_index,        *)
(* chunk_method = "semantic" and chunk_size = len(content), these three    *)
(* winning over same-named input keys; building the chunks, the final      *)
(* total_chunks stamping included, leaves the caller's metadata mapping    *)
(* unchanged, and no two chunks share one metadata mapping.                *)
C26_ChunkMetadata ==
    /\ [](Semantic =>
             /\ FreshMappings
             /\ pc = "loop" =>
                    \A k \in 1..Len(chunks) :
                        chunks[k].metadata = ChunkMetadata(chunks, k)
             /\ pc = "done" =>
                    \A k \in 1..Len(result) :
                        result[k].metadata =
                            Merge(ChunkMetadata(result, k),
                                  [total_chunks |-> Len(result)]))
    /\ [][Semantic => metadata' = metadata]_vars

(* two stamped chunks built from a caller's mapping that holds its own     *)
(* chunk_size and total_chunks entries                                     *)
C26_Witness ==
    /\ Returned
    /\ Semantic
    /\ Len(result) >= 2
    /\ metadata = StaleMetadata
    /\ result[1].metadata.chunk_size = Len(result[1].content)
    /\ result[1].metadata.chunk_size # metadata.chunk_size
    /\ result[2].metadata.chunk_index = 1
    /\ result[1].metadata.total_chunks = Len(result)
    /\ refs[1] # refs[2]

-----------------------------------------------------------------------------
(* the positions at which a whitespace run of t begins that is immediately *)
(* preceded by '.', '?' or '!' and immediately followed by an uppercase    *)
(* letter, and is not preceded by word-char '.' word-char any-char nor by  *)
(* uppercase, lowercase, '.'                                               *)
SplitStarts(t) ==
    {p \in 2..Len(t) :
        /\ t[p] \in Whitespace
        /\ t[p - 1] \in Punct
        /\ ~(/\ p >= 5
             /\ t[p - 4] \in WordChars
             /\ t[p - 3] = "."
             /\ t[p - 2] \in WordChars)
        /\ ~(/\ p >= 4
             /\ t[p - 3] \in Upper
             /\ t[p - 2] \in Lower
             /\ t[p - 1] = ".")
        /\ \E q \in p..(Len(t) - 1) :
               /\ \A k \in p..q : t[k] \in Whitespace
               /\ t[q + 1] \in Upper}

(* the first position after the whitespace run that begins at p *)
AfterRun(t, p) ==
    CHOOSE q \in (p + 1)..(Len(t) + 1) :
        /\ \A k \in p..(q - 1) : t[k] \in Whitespace
        /\ q <= Len(t) => t[q] \notin Whitespace

(* s without its leading and trailing whitespace *)
Trimmed(s) ==
    LET ks == {k \in 1..Len(s) : s[k] \notin Whitespace}
    IN  IF ks = {} THEN <<>>
        ELSE SubSeq(s, CHOOSE a \in ks : \A k \in ks : a <= k,
                       CHOOSE b \in ks : \A k \in ks : k <= b)

(* the pieces of t between its splitting runs, trimmed, in input order *)
PiecesBetween(t) ==
    LET S      == SplitStarts(t)
        n      == Cardinality(S)
        nth(j) == CHOOSE p \in S : Cardinality({q \in S : q < p}) = j - 1
    IN  [j \in 1..(n + 1) |->
            Trimmed(SubSeq(t, IF j = 1 THEN 1 ELSE AfterRun(t, nth(j - 1)),
                              IF j = n + 1 THEN Len(t) ELSE nth(j) - 1))]

LongEnough(s) == Len(s) >= 11

(* C24: _split_into_sentences splits the text exactly at the maximal       *)
(* whitespace runs that are immediately preceded by '.', '?' or '!' and    *)
(* immediately followed by an uppercase letter, except where the four      *)
(* characters before the run are word-char '.' word-char any-char or the   *)
(* three before it are uppercase, lowercase, '.'; each piece is trimmed    *)
(* and emitted, in input order, iff its trimmed length is at least 11; a   *)
(* period followed by whitespace and a non-uppercase character never       *)
(* splits.                                                                 *)
C24_SentenceSegmentation ==
    (entry = "split_into_sentences" /\ Returned) =>
        /\ result = SelectSeq(PiecesBetween(text), LongEnough)
        /\ (\A p \in 1..(Len(text) - 1) :
               (text[p] \in Whitespace /\ text[p + 1] \notin Whitespace)
                   => text[p + 1] \notin Upper)
             => Len(result) <= 1

(* an honorific and a lower-case start that do not split, and one run     *)
(* that does: two sentences                                                *)
C24_Witness ==
    /\ entry = "split_into_sentences"
    /\ Returned
    /\ Len(result) = 2
    /\ Cardinality(SplitStarts(text)) = 1
    /\ \E p \in 4..(Len(text) - 1) :
           /\ text[p - 3] \in Upper
           /\ text[p - 2] \in Lower
           /\ text[p - 1] = "."
           /\ text[p] \in Whitespace
           /\ text[AfterRun(text, p)] \in Upper

(* an abbreviation before a run that would otherwise split *)
C24_WitnessAbbreviation ==
    /\ entry = "split_into_sentences"
    /\ Returned
    /\ Len(result) = 1
    /\ \E p \in 5..(Len(text) - 1) :
           /\ text[p - 3] = "."
           /\ text[p - 1] = "?"
           /\ text[p] \in Whitespace
           /\ text[AfterRun(text, p)] \in Upper

(* a candidate of ten characters is dropped *)
C24_WitnessDropped ==
    /\ entry = "split_into_sentences"
    /\ Returned
    /\ SplitStarts(text) # {}
    /\ Len(result) = Cardinality(SplitStarts(text))

-----------------------------------------------------------------------------
(* the lines of s: the pieces between its newlines *)
SplitLines(s) ==
    LET N      == {k \in 1..Len(s) : s[k] = "\n"}
        nth(j) == CHOOSE k \in N : Cardinality({q \in N : q < k}) = j - 1
    IN  [j \in 1..(Cardinality(N) + 1) |->
            SubSeq(s, IF j = 1 THEN 1 ELSE nth(j - 1) + 1,
                      IF j = Cardinality(N) + 1 THEN Len(s) ELSE nth(j) - 1)]

(* a cell's text with its newlines replaced by spaces, trimmed *)
CellText(c) ==
    Trimmed([k \in 1..Len(c) |-> IF c[k] = "\n" THEN " " ELSE c[k]])

(* the cells' texts joined by " | " *)
RECURSIVE RowText(_)
RowText(row) ==
    IF Len(row) = 1 THEN CellText(row[1])
    ELSE CellText(row[1]) \o <<" ", "|", " ">> \o RowText(Tail(row))

HasRows(element) == ~(element.tag = "tbl" /\ element.rows = <<>>)

(* C22: for a table with n >= 1 rows _format_table returns exactly n + 3   *)
(* lines: a border of '-' repeated len(header line) times, the header      *)
(* line, the same border, the n - 1 remaining rows in order and the same   *)
(* border, every row line being its cells' text (inner newlines replaced   *)
(* by spaces, trimmed) joined by " | "; a table with no rows yields the    *)
(* empty string and contributes nothing to the content.                    *)
C22_TableBlock ==
    /\ (entry = "format_table" /\ Returned) =>
           LET rows  == document.rows
               n     == Len(rows)
               lines == SplitLines(text)
           IN  IF n = 0 THEN text = <<>>
               ELSE /\ Len(lines) = n + 3
                    /\ lines[1] = Rep("-", Len(RowText(rows[1])))
                    /\ lines[2] = RowText(rows[1])
                    /\ lines[3] = lines[1]
                    /\ \A k \in 2..n : lines[k + 2] = RowText(rows[k])
                    /\ lines[n + 3] = lines[1]
    /\ (entry = "extract_content" /\ kind = "docx" /\ Returned) =>
           text = docx_extract_content(
                      [document EXCEPT !.body = SelectSeq(@, HasRows)], options)

(* a table of two rows, one of its cells holding a newline *)
C22_Witness ==
    /\ entry = "format_table"
    /\ Returned
    /\ Len(document.rows) = 2
    /\ Len(document.rows[1]) = 2
    /\ \E c \in 1..Len(document.rows[2]) : \E k \in 1..Len(document.rows[2][c]) :
           document.rows[2][c][k] = "\n"
    /\ Len(SplitLines(text)) = 5
    /\ Len(SplitLines(text)[1]) >= 5

(* a DOCX body with a table without rows next to a paragraph *)
C22_WitnessNoRows ==
    /\ entry = "extract_content"
    /\ kind = "docx"
    /\ Returned
    /\ options.extract_tables
    /\ \E k \in 1..Len(document.body) : ~HasRows(document.body[k])
    /\ text # <<>>

-----------------------------------------------------------------------------
(* s holds no run of three or more newlines and neither begins nor ends    *)
(* with whitespace                                                         *)
Normalized(s) ==
    /\ \A k \in 3..Len(s) :
           ~(s[k] = "\n" /\ s[k - 1] = "\n" /\ s[k - 2] = "\n")
    /\ s # <<>> => s[1] \notin Whitespace /\ s[Len(s)] \notin Whitespace

(* C23: the string extract_content returns, for the DOCX and the PDF       *)
(* decoder and on the OCR and placeholder paths as well, contains no run   *)
(* of three or more consecutive newlines and has no leading or trailing    *)
(* whitespace.                                                             *)
C23_NormalizedText ==
    (entry = "extract_content" /\ Returned) => Normalized(text)

(* what holds of the two decoders: the DOCX decoder returns normalized     *)
(* text, and so does the PDF decoder when a placeholder replaces the       *)
(* whole content                                                           *)
C23_DocxNormalized ==
    (entry = "extract_content" /\ Returned
        /\ (kind = "docx" \/ text \in {NougatPlaceholder, Gpt4vPlaceholder}))
      => Normalized(text)

-----------------------------------------------------------------------------
(* the file is a readable DOCX with zero paragraphs and zero tables *)
EmptyDocx ==
    /\ kind = "docx"
    /\ document.raises = ""
    /\ \A k \in 1..Len(document.body) : document.body[k].tag \notin {"p", "tbl"}

(* C21: processing a DOCX that has zero paragraphs and zero tables fails   *)
(* with an Empty decode error; process_document never returns a            *)
(* ProcessedDocument (with empty content and zero chunks) for such a       *)
(* document.                                                               *)
C21_EmptyDocxRejected ==
    (entry = "process_document" /\ EmptyDocx) =>
        /\ pc \in {"extract", "raised"}
        /\ processed_doc = NoDocument

====
